---- MODULE Spec2Model ----
(***************************************************************************)
(* A model of the ATS field mapping engine (src/ats_field_mapper.py).      *)
(*                                                                         *)
(* Encoding of Python values:                                              *)
(*   - a str is a sequence of one-character strings, "" is << >>;          *)
(*   - None, where a str is expected, is the one-element sequence None;    *)
(*   - a float is an exact rational <<numerator, denominator>>;            *)
(*   - a dict is a function whose DOMAIN is the set of keys that are set;  *)
(*   - list indices are 0-based, as in the source; NoIndex stands for a    *)
(*     None index.                                                         *)
(***************************************************************************)
EXTENDS Integers, Sequences, FiniteSets, TLC

None == <<"<None>">>

NoIndex == 0 - 1

\* Python truthiness of an Optional[str]: None and "" are falsy.
Truthy(s) == s # None /\ s # << >>

Min(S) == CHOOSE x \in S : \A y \in S : x <= y

Max(S) == CHOOSE x \in S : \A y \in S : x >= y

(***************************************************************************)
(* Characters and the str methods the mapper uses.                         *)
(***************************************************************************)
UpperChars == <<"A","B","C","D","E","F","G","H","I","J","K","L","M","N","O","P","Q","R","S","T","U","V","W","X","Y","Z">>

LowerChars == <<"a","b","c","d","e","f","g","h","i","j","k","l","m","n","o","p","q","r","s","t","u","v","w","x","y","z">>

DigitChars == <<"0","1","2","3","4","5","6","7","8","9">>

Range(f) == {f[i] : i \in DOMAIN f}

Whitespace == {" ", "\t", "\n"}

\* \w of the re module on ASCII text
WordChars == Range(UpperChars) \cup Range(LowerChars) \cup Range(DigitChars) \cup {"_"}

IsWordChar(c) == c \in WordChars

LowerChar(c) ==
    IF c \in Range(UpperChars)
    THEN LowerChars[CHOOSE i \in DOMAIN UpperChars : UpperChars[i] = c]
    ELSE c

str_lower(s) == [i \in 1..Len(s) |-> LowerChar(s[i])]

str_strip(s) ==
    LET keep == {i \in 1..Len(s) : s[i] \notin Whitespace}
    IN  IF keep = {} THEN << >> ELSE SubSeq(s, Min(keep), Max(keep))

StartsWithAt(s, i, p) ==
    /\ i + Len(p) - 1 <= Len(s)
    /\ \A k \in 1..Len(p) : s[i + k - 1] = p[k]

StartsWith(s, p) == StartsWithAt(s, 1, p)

EndsWith(s, p) == Len(p) <= Len(s) /\ StartsWithAt(s, Len(s) - Len(p) + 1, p)

\* Python "sub in s"
Contains(s, sub) == \E i \in 1..(Len(s) - Len(sub) + 1) : StartsWithAt(s, i, sub)

\* first index >= i that does not hold whitespace (Len(s)+1 when there is none)
RECURSIVE SkipWs(_, _)
SkipWs(s, i) == IF i <= Len(s) /\ s[i] \in Whitespace THEN SkipWs(s, i + 1) ELSE i

\* last index <= i that does not hold whitespace (0 when there is none)
RECURSIVE SkipWsBack(_, _)
SkipWsBack(s, i) == IF i >= 1 /\ s[i] \in Whitespace THEN SkipWsBack(s, i - 1) ELSE i

(***************************************************************************)
(* normalize_field_name: the five regular-expression stages.               *)
(***************************************************************************)
\* alternatives of ^(required|optional|please enter|enter)
PrefixWords == <<<<"r","e","q","u","i","r","e","d">>, <<"o","p","t","i","o","n","a","l">>, <<"p","l","e","a","s","e"," ","e","n","t","e","r">>, <<"e","n","t","e","r">>>>

\* alternatives of (required|optional|\(required\)|\(optional\))$
SuffixWords == <<<<"r","e","q","u","i","r","e","d">>, <<"o","p","t","i","o","n","a","l">>, <<"(","r","e","q","u","i","r","e","d",")">>, <<"(","o","p","t","i","o","n","a","l",")">>>>

\* re.sub(r'^(required|optional|please enter|enter)\s*:?\s*', '', s)
remove_prefix(s) ==
    LET alts == {k \in DOMAIN PrefixWords : StartsWith(s, PrefixWords[k])}
    IN  IF alts = {} THEN s
        ELSE LET w  == PrefixWords[Min(alts)]
                 i1 == SkipWs(s, Len(w) + 1)
                 i2 == IF i1 <= Len(s) /\ s[i1] = ":" THEN i1 + 1 ELSE i1
                 i3 == SkipWs(s, i2)
             IN  SubSeq(s, i3, Len(s))

\* re.sub(r'\s*:?\s*(required|optional|\(required\)|\(optional\))$', '', s):
\* the leftmost match takes the whitespace, one colon and the whitespace
\* that precede the closing word.
remove_suffix(s) ==
    LET alts == {k \in DOMAIN SuffixWords : EndsWith(s, SuffixWords[k])}
    IN  IF alts = {} THEN s
        ELSE LET w  == SuffixWords[Min(alts)]
                 e1 == SkipWsBack(s, Len(s) - Len(w))
                 e2 == IF e1 >= 1 /\ s[e1] = ":" THEN e1 - 1 ELSE e1
                 e3 == SkipWsBack(s, e2)
             IN  SubSeq(s, 1, e3)

KeptChar(c) == IsWordChar(c) \/ c \in Whitespace \/ c = "-"

\* re.sub(r'[^\w\s-]', '', s)
remove_special_chars(s) == SelectSeq(s, KeptChar)

\* re.sub(r'\s+', ' ', s)
RECURSIVE CollapseWs(_, _)
CollapseWs(s, i) ==
    IF i > Len(s) THEN << >>
    ELSE IF s[i] \in Whitespace THEN <<" ">> \o CollapseWs(s, SkipWs(s, i))
    ELSE <<s[i]>> \o CollapseWs(s, i + 1)

normalize_whitespace(s) == str_strip(CollapseWs(s, 1))

Step(name, before, after) == [step |-> name, before |-> before, after |-> after]

\* a variant that logs every stage when tracking is on
LoggedAlways(steps, track_steps, name, before, after) ==
    IF track_steps THEN Append(steps, Step(name, before, after)) ELSE steps

\* the step list grows only when tracking is on and the stage changed the text
Logged(steps, track_steps, name, before, after) ==
    IF track_steps /\ after # before THEN Append(steps, Step(name, before, after)) ELSE steps

normalize_field_name(field_name, track_steps) ==
    LET n1 == str_strip(str_lower(field_name))
        s1 == Logged(<< >>, track_steps, "lowercase", field_name, n1)
        n2 == remove_prefix(n1)
        s2 == Logged(s1, track_steps, "remove_prefix", n1, n2)
        n3 == remove_suffix(n2)
        s3 == Logged(s2, track_steps, "remove_suffix", n2, n3)
        n4 == remove_special_chars(n3)
        s4 == Logged(s3, track_steps, "remove_special_chars", n3, n4)
        n5 == normalize_whitespace(n4)
        s5 == Logged(s4, track_steps, "normalize_whitespace", n4, n5)
    IN  [normalized |-> n5, steps |-> IF track_steps THEN s5 ELSE None]

(***************************************************************************)
(* The blacklist.  A pattern \bw1\s+w2...\b is the list of its words; the  *)
(* patterns ^\s*w\s*$ are marked anchored.                                 *)
(***************************************************************************)
FIELD_BLACKLIST_PATTERNS ==
    <<
       [words |-> <<<<"i","n","t","e","r","n","a","l">>, <<"u","s","e">>>>, anchored |-> FALSE],
       [words |-> <<<<"r","e","s","e","r","v","e","d">>>>, anchored |-> FALSE],
       [words |-> <<<<"d","o">>, <<"n","o","t">>, <<"f","i","l","l">>>>, anchored |-> FALSE],
       [words |-> <<<<"d","o">>, <<"n","o","t">>, <<"c","o","m","p","l","e","t","e">>>>, anchored |-> FALSE],
       [words |-> <<<<"n","o","t">>, <<"f","o","r">>, <<"a","p","p","l","i","c","a","n","t">>>>, anchored |-> FALSE],
       [words |-> <<<<"f","o","r">>, <<"i","n","t","e","r","n","a","l">>, <<"u","s","e">>, <<"o","n","l","y">>>>, anchored |-> FALSE],
       [words |-> <<<<"h","r">>, <<"u","s","e">>, <<"o","n","l","y">>>>, anchored |-> FALSE],
       [words |-> <<<<"r","e","c","r","u","i","t","e","r">>, <<"u","s","e">>, <<"o","n","l","y">>>>, anchored |-> FALSE],
       [words |-> <<<<"a","d","m","i","n">>, <<"u","s","e">>, <<"o","n","l","y">>>>, anchored |-> FALSE],
       [words |-> <<<<"a","d","m","i","n","i","s","t","r","a","t","i","v","e">>, <<"u","s","e">>, <<"o","n","l","y">>>>, anchored |-> FALSE],
       [words |-> <<<<"h","i","d","d","e","n">>>>, anchored |-> FALSE],
       [words |-> <<<<"s","y","s","t","e","m">>, <<"f","i","e","l","d">>>>, anchored |-> FALSE],
       [words |-> <<<<"a","u","t","o">>, <<"g","e","n","e","r","a","t","e","d">>>>, anchored |-> FALSE],
       [words |-> <<<<"g","e","n","e","r","a","t","e","d">>, <<"b","y">>, <<"s","y","s","t","e","m">>>>, anchored |-> FALSE],
       [words |-> <<<<"p","l","a","c","e","h","o","l","d","e","r">>>>, anchored |-> FALSE],
       [words |-> <<<<"e","x","a","m","p","l","e">>>>, anchored |-> FALSE],
       [words |-> <<<<"s","a","m","p","l","e">>>>, anchored |-> FALSE],
       [words |-> <<<<"t","e","s","t">>, <<"f","i","e","l","d">>>>, anchored |-> FALSE],
       [words |-> <<<<"d","e","m","o">>>>, anchored |-> FALSE],
       [words |-> <<<<"d","i","s","a","b","l","e","d">>>>, anchored |-> FALSE],
       [words |-> <<<<"i","n","a","c","t","i","v","e">>>>, anchored |-> FALSE],
       [words |-> <<<<"n","o","t">>, <<"i","n">>, <<"u","s","e">>>>, anchored |-> FALSE],
       [words |-> <<<<"d","e","p","r","e","c","a","t","e","d">>>>, anchored |-> FALSE],
       [words |-> <<<<"c","o","m","m","e","n","t">>>>, anchored |-> TRUE],
       [words |-> <<<<"n","o","t","e">>>>, anchored |-> TRUE],
       [words |-> <<<<"n","o","t","e","s">>>>, anchored |-> TRUE],
       [words |-> <<<<"r","e","m","a","r","k","s">>>>, anchored |-> TRUE]
    >>

\* the words from the k-th on match at position i, separated by \s+ and
\* closed by \b: the position after the match, or 0
RECURSIVE MatchWordsAt(_, _, _, _)
MatchWordsAt(s, i, words, k) ==
    IF ~StartsWithAt(s, i, words[k]) THEN 0
    ELSE LET e == i + Len(words[k])
         IN  IF k = Len(words)
             THEN IF e > Len(s) \/ ~IsWordChar(s[e]) THEN e ELSE 0
             ELSE IF e <= Len(s) /\ s[e] \in Whitespace
                  THEN MatchWordsAt(s, SkipWs(s, e), words, k + 1)
                  ELSE 0

\* re.search(pattern, s, re.IGNORECASE) on an already lowercased s
PatternMatches(pattern, s) ==
    IF pattern.anchored
    THEN str_strip(s) = pattern.words[1]
    ELSE \E i \in 1..Len(s) :
            /\ (i = 1 \/ ~IsWordChar(s[i - 1]))
            /\ MatchWordsAt(s, i, pattern.words, 1) # 0

\* (is_blacklisted, matched_pattern): the pattern is named by its position
\* in FIELD_BLACKLIST_PATTERNS, 0 standing for None
BlacklistHits(normalized) ==
    {k \in DOMAIN FIELD_BLACKLIST_PATTERNS :
        PatternMatches(FIELD_BLACKLIST_PATTERNS[k], normalized)}

FirstHit(hits) == IF hits = {} THEN <<FALSE, 0>> ELSE <<TRUE, Min(hits)>>

is_field_blacklisted(field_name) ==
    FirstHit(BlacklistHits(normalize_field_name(field_name, FALSE).normalized))

(***************************************************************************)
(* Floats as exact rationals <<n, d>> with d > 0.                          *)
(***************************************************************************)
RatLt(a, b) == a[1] * b[2] < b[1] * a[2]

RatLe(a, b) == a[1] * b[2] <= b[1] * a[2]

RatEq(a, b) == a[1] * b[2] = b[1] * a[2]

RatMul(a, b) == <<a[1] * b[1], a[2] * b[2]>>

RatMax(a, b) == IF RatLt(a, b) THEN b ELSE a

Zero == <<0, 1>>

One == <<1, 1>>

\* a float that is None (sensitivity_weight of an ignored or unmatched field)
NoneFloat == <<0, 0>>

(***************************************************************************)
(* The canonical taxonomy, the sensitivity weights and the synonym table.  *)
(***************************************************************************)
NoField == "<None>"

CanonicalField == <<"first_name", "last_name", "full_name", "email", "phone", "phone_number", "address", "city", "state", "zip_code", "country", "linkedin_url", "github_url", "portfolio_url", "website", "education.degree", "education.institution", "education.start_date", "education.end_date", "education.major", "education.gpa", "experience.title", "experience.company", "experience.start_date", "experience.end_date", "experience.description", "experience.current", "skills", "project.name", "project.description", "resume_file", "cover_letter", "availability", "salary_expectation", "work_authorization">>

FIELD_SENSITIVITY_WEIGHTS ==
    ("email" :> <<1, 2>>) @@
    ("phone" :> <<1, 2>>) @@
    ("phone_number" :> <<1, 2>>) @@
    ("first_name" :> <<7, 10>>) @@
    ("last_name" :> <<7, 10>>) @@
    ("full_name" :> <<7, 10>>) @@
    ("work_authorization" :> <<7, 10>>) @@
    ("education.degree" :> <<17, 20>>) @@
    ("education.institution" :> <<17, 20>>) @@
    ("education.start_date" :> <<17, 20>>) @@
    ("education.end_date" :> <<17, 20>>) @@
    ("education.gpa" :> <<17, 20>>) @@
    ("experience.start_date" :> <<17, 20>>) @@
    ("experience.end_date" :> <<17, 20>>) @@
    ("experience.current" :> <<17, 20>>) @@
    ("address" :> <<1, 1>>) @@
    ("city" :> <<1, 1>>) @@
    ("state" :> <<1, 1>>) @@
    ("zip_code" :> <<1, 1>>) @@
    ("country" :> <<1, 1>>) @@
    ("linkedin_url" :> <<1, 1>>) @@
    ("github_url" :> <<1, 1>>) @@
    ("portfolio_url" :> <<1, 1>>) @@
    ("website" :> <<1, 1>>) @@
    ("education.major" :> <<1, 1>>) @@
    ("experience.title" :> <<1, 1>>) @@
    ("experience.company" :> <<1, 1>>) @@
    ("experience.description" :> <<1, 1>>) @@
    ("skills" :> <<1, 1>>) @@
    ("project.name" :> <<1, 1>>) @@
    ("project.description" :> <<1, 1>>) @@
    ("resume_file" :> <<1, 1>>) @@
    ("cover_letter" :> <<1, 1>>) @@
    ("availability" :> <<1, 1>>) @@
    ("salary_expectation" :> <<1, 1>>)

\* FIELD_SENSITIVITY_WEIGHTS.get(canonical_field, 1.0)
SensitivityWeight(canonical_field) ==
    IF canonical_field \in DOMAIN FIELD_SENSITIVITY_WEIGHTS
    THEN FIELD_SENSITIVITY_WEIGHTS[canonical_field]
    ELSE One

\* the dict literal in insertion order: a key written twice ('start date')
\* keeps its first position and its last value
ATS_FIELD_MAPPINGS ==
    <<
       <<<<"f","i","r","s","t"," ","n","a","m","e">>, "first_name">>,
       <<<<"f","i","r","s","t","n","a","m","e">>, "first_name">>,
       <<<<"f","n","a","m","e">>, "first_name">>,
       <<<<"g","i","v","e","n"," ","n","a","m","e">>, "first_name">>,
       <<<<"f","o","r","e","n","a","m","e">>, "first_name">>,
       <<<<"l","a","s","t"," ","n","a","m","e">>, "last_name">>,
       <<<<"l","a","s","t","n","a","m","e">>, "last_name">>,
       <<<<"l","n","a","m","e">>, "last_name">>,
       <<<<"s","u","r","n","a","m","e">>, "last_name">>,
       <<<<"f","a","m","i","l","y"," ","n","a","m","e">>, "last_name">>,
       <<<<"f","u","l","l"," ","n","a","m","e">>, "full_name">>,
       <<<<"f","u","l","l","n","a","m","e">>, "full_name">>,
       <<<<"n","a","m","e">>, "full_name">>,
       <<<<"a","p","p","l","i","c","a","n","t"," ","n","a","m","e">>, "full_name">>,
       <<<<"c","a","n","d","i","d","a","t","e"," ","n","a","m","e">>, "full_name">>,
       <<<<"e","m","a","i","l">>, "email">>,
       <<<<"e","m","a","i","l"," ","a","d","d","r","e","s","s">>, "email">>,
       <<<<"e","-","m","a","i","l">>, "email">>,
       <<<<"e","-","m","a","i","l"," ","a","d","d","r","e","s","s">>, "email">>,
       <<<<"e","m","a","i","l"," ","i","d">>, "email">>,
       <<<<"c","o","n","t","a","c","t"," ","e","m","a","i","l">>, "email">>,
       <<<<"p","h","o","n","e">>, "phone">>,
       <<<<"p","h","o","n","e"," ","n","u","m","b","e","r">>, "phone_number">>,
       <<<<"t","e","l","e","p","h","o","n","e">>, "phone">>,
       <<<<"t","e","l","e","p","h","o","n","e"," ","n","u","m","b","e","r">>, "phone_number">>,
       <<<<"m","o","b","i","l","e">>, "phone">>,
       <<<<"m","o","b","i","l","e"," ","n","u","m","b","e","r">>, "phone_number">>,
       <<<<"c","e","l","l"," ","p","h","o","n","e">>, "phone">>,
       <<<<"c","e","l","l">>, "phone">>,
       <<<<"c","o","n","t","a","c","t"," ","n","u","m","b","e","r">>, "phone">>,
       <<<<"p","h","o","n","e"," ","#">>, "phone">>,
       <<<<"a","d","d","r","e","s","s">>, "address">>,
       <<<<"s","t","r","e","e","t"," ","a","d","d","r","e","s","s">>, "address">>,
       <<<<"s","t","r","e","e","t">>, "address">>,
       <<<<"a","d","d","r","e","s","s"," ","l","i","n","e"," ","1">>, "address">>,
       <<<<"a","d","d","r","e","s","s"," ","l","i","n","e","1">>, "address">>,
       <<<<"c","i","t","y">>, "city">>,
       <<<<"s","t","a","t","e">>, "state">>,
       <<<<"s","t","a","t","e","/","p","r","o","v","i","n","c","e">>, "state">>,
       <<<<"p","r","o","v","i","n","c","e">>, "state">>,
       <<<<"z","i","p">>, "zip_code">>,
       <<<<"z","i","p"," ","c","o","d","e">>, "zip_code">>,
       <<<<"p","o","s","t","a","l"," ","c","o","d","e">>, "zip_code">>,
       <<<<"p","o","s","t","c","o","d","e">>, "zip_code">>,
       <<<<"z","i","p","/","p","o","s","t","a","l"," ","c","o","d","e">>, "zip_code">>,
       <<<<"c","o","u","n","t","r","y">>, "country">>,
       <<<<"l","i","n","k","e","d","i","n">>, "linkedin_url">>,
       <<<<"l","i","n","k","e","d","i","n"," ","p","r","o","f","i","l","e">>, "linkedin_url">>,
       <<<<"l","i","n","k","e","d","i","n"," ","u","r","l">>, "linkedin_url">>,
       <<<<"l","i","n","k","e","d","i","n",".","c","o","m">>, "linkedin_url">>,
       <<<<"g","i","t","h","u","b">>, "github_url">>,
       <<<<"g","i","t","h","u","b"," ","p","r","o","f","i","l","e">>, "github_url">>,
       <<<<"g","i","t","h","u","b"," ","u","r","l">>, "github_url">>,
       <<<<"g","i","t","h","u","b",".","c","o","m">>, "github_url">>,
       <<<<"p","o","r","t","f","o","l","i","o">>, "portfolio_url">>,
       <<<<"p","o","r","t","f","o","l","i","o"," ","u","r","l">>, "portfolio_url">>,
       <<<<"p","o","r","t","f","o","l","i","o"," ","w","e","b","s","i","t","e">>, "portfolio_url">>,
       <<<<"p","e","r","s","o","n","a","l"," ","w","e","b","s","i","t","e">>, "portfolio_url">>,
       <<<<"w","e","b","s","i","t","e">>, "website">>,
       <<<<"p","e","r","s","o","n","a","l"," ","s","i","t","e">>, "website">>,
       <<<<"h","o","m","e","p","a","g","e">>, "website">>,
       <<<<"d","e","g","r","e","e">>, "education.degree">>,
       <<<<"e","d","u","c","a","t","i","o","n"," ","d","e","g","r","e","e">>, "education.degree">>,
       <<<<"h","i","g","h","e","s","t"," ","d","e","g","r","e","e">>, "education.degree">>,
       <<<<"d","e","g","r","e","e"," ","e","a","r","n","e","d">>, "education.degree">>,
       <<<<"q","u","a","l","i","f","i","c","a","t","i","o","n">>, "education.degree">>,
       <<<<"s","c","h","o","o","l">>, "education.institution">>,
       <<<<"u","n","i","v","e","r","s","i","t","y">>, "education.institution">>,
       <<<<"c","o","l","l","e","g","e">>, "education.institution">>,
       <<<<"i","n","s","t","i","t","u","t","i","o","n">>, "education.institution">>,
       <<<<"e","d","u","c","a","t","i","o","n","a","l"," ","i","n","s","t","i","t","u","t","i","o","n">>, "education.institution">>,
       <<<<"s","c","h","o","o","l"," ","n","a","m","e">>, "education.institution">>,
       <<<<"u","n","i","v","e","r","s","i","t","y"," ","n","a","m","e">>, "education.institution">>,
       <<<<"c","o","l","l","e","g","e"," ","n","a","m","e">>, "education.institution">>,
       <<<<"e","d","u","c","a","t","i","o","n"," ","s","t","a","r","t">>, "education.start_date">>,
       <<<<"e","d","u","c","a","t","i","o","n"," ","s","t","a","r","t"," ","d","a","t","e">>, "education.start_date">>,
       <<<<"s","c","h","o","o","l"," ","s","t","a","r","t"," ","d","a","t","e">>, "education.start_date">>,
       <<<<"e","n","r","o","l","l","m","e","n","t"," ","d","a","t","e">>, "education.start_date">>,
       <<<<"e","d","u","c","a","t","i","o","n"," ","e","n","d">>, "education.end_date">>,
       <<<<"e","d","u","c","a","t","i","o","n"," ","e","n","d"," ","d","a","t","e">>, "education.end_date">>,
       <<<<"g","r","a","d","u","a","t","i","o","n"," ","d","a","t","e">>, "education.end_date">>,
       <<<<"g","r","a","d","u","a","t","i","o","n"," ","y","e","a","r">>, "education.end_date">>,
       <<<<"d","e","g","r","e","e"," ","d","a","t","e">>, "education.end_date">>,
       <<<<"c","o","m","p","l","e","t","i","o","n"," ","d","a","t","e">>, "education.end_date">>,
       <<<<"m","a","j","o","r">>, "education.major">>,
       <<<<"f","i","e","l","d"," ","o","f"," ","s","t","u","d","y">>, "education.major">>,
       <<<<"a","r","e","a"," ","o","f"," ","s","t","u","d","y">>, "education.major">>,
       <<<<"c","o","n","c","e","n","t","r","a","t","i","o","n">>, "education.major">>,
       <<<<"s","p","e","c","i","a","l","i","z","a","t","i","o","n">>, "education.major">>,
       <<<<"g","p","a">>, "education.gpa">>,
       <<<<"g","r","a","d","e"," ","p","o","i","n","t"," ","a","v","e","r","a","g","e">>, "education.gpa">>,
       <<<<"c","g","p","a">>, "education.gpa">>,
       <<<<"j","o","b"," ","t","i","t","l","e">>, "experience.title">>,
       <<<<"p","o","s","i","t","i","o","n">>, "experience.title">>,
       <<<<"t","i","t","l","e">>, "experience.title">>,
       <<<<"r","o","l","e">>, "experience.title">>,
       <<<<"p","o","s","i","t","i","o","n"," ","t","i","t","l","e">>, "experience.title">>,
       <<<<"j","o","b"," ","r","o","l","e">>, "experience.title">>,
       <<<<"c","o","m","p","a","n","y">>, "experience.company">>,
       <<<<"e","m","p","l","o","y","e","r">>, "experience.company">>,
       <<<<"o","r","g","a","n","i","z","a","t","i","o","n">>, "experience.company">>,
       <<<<"c","o","m","p","a","n","y"," ","n","a","m","e">>, "experience.company">>,
       <<<<"e","m","p","l","o","y","e","r"," ","n","a","m","e">>, "experience.company">>,
       <<<<"o","r","g","a","n","i","z","a","t","i","o","n"," ","n","a","m","e">>, "experience.company">>,
       <<<<"e","m","p","l","o","y","m","e","n","t"," ","s","t","a","r","t">>, "experience.start_date">>,
       <<<<"e","m","p","l","o","y","m","e","n","t"," ","s","t","a","r","t"," ","d","a","t","e">>, "experience.start_date">>,
       <<<<"s","t","a","r","t"," ","d","a","t","e">>, "availability">>,
       <<<<"j","o","b"," ","s","t","a","r","t"," ","d","a","t","e">>, "experience.start_date">>,
       <<<<"w","o","r","k"," ","s","t","a","r","t"," ","d","a","t","e">>, "experience.start_date">>,
       <<<<"d","a","t","e"," ","s","t","a","r","t","e","d">>, "experience.start_date">>,
       <<<<"e","m","p","l","o","y","m","e","n","t"," ","e","n","d">>, "experience.end_date">>,
       <<<<"e","m","p","l","o","y","m","e","n","t"," ","e","n","d"," ","d","a","t","e">>, "experience.end_date">>,
       <<<<"e","n","d"," ","d","a","t","e">>, "experience.end_date">>,
       <<<<"j","o","b"," ","e","n","d"," ","d","a","t","e">>, "experience.end_date">>,
       <<<<"w","o","r","k"," ","e","n","d"," ","d","a","t","e">>, "experience.end_date">>,
       <<<<"d","a","t","e"," ","e","n","d","e","d">>, "experience.end_date">>,
       <<<<"t","o"," ","d","a","t","e">>, "experience.end_date">>,
       <<<<"j","o","b"," ","d","e","s","c","r","i","p","t","i","o","n">>, "experience.description">>,
       <<<<"w","o","r","k"," ","d","e","s","c","r","i","p","t","i","o","n">>, "experience.description">>,
       <<<<"r","e","s","p","o","n","s","i","b","i","l","i","t","i","e","s">>, "experience.description">>,
       <<<<"d","u","t","i","e","s">>, "experience.description">>,
       <<<<"r","o","l","e"," ","d","e","s","c","r","i","p","t","i","o","n">>, "experience.description">>,
       <<<<"c","u","r","r","e","n","t"," ","p","o","s","i","t","i","o","n">>, "experience.current">>,
       <<<<"c","u","r","r","e","n","t"," ","j","o","b">>, "experience.current">>,
       <<<<"c","u","r","r","e","n","t","l","y"," ","e","m","p","l","o","y","e","d">>, "experience.current">>,
       <<<<"s","t","i","l","l"," ","w","o","r","k","i","n","g">>, "experience.current">>,
       <<<<"p","r","e","s","e","n","t">>, "experience.current">>,
       <<<<"s","k","i","l","l","s">>, "skills">>,
       <<<<"t","e","c","h","n","i","c","a","l"," ","s","k","i","l","l","s">>, "skills">>,
       <<<<"c","o","m","p","e","t","e","n","c","i","e","s">>, "skills">>,
       <<<<"e","x","p","e","r","t","i","s","e">>, "skills">>,
       <<<<"p","r","o","f","i","c","i","e","n","c","i","e","s">>, "skills">>,
       <<<<"t","e","c","h","n","o","l","o","g","i","e","s">>, "skills">>,
       <<<<"t","o","o","l","s">>, "skills">>,
       <<<<"p","r","o","g","r","a","m","m","i","n","g"," ","l","a","n","g","u","a","g","e","s">>, "skills">>,
       <<<<"p","r","o","j","e","c","t"," ","n","a","m","e">>, "project.name">>,
       <<<<"p","r","o","j","e","c","t"," ","t","i","t","l","e">>, "project.name">>,
       <<<<"p","r","o","j","e","c","t"," ","d","e","s","c","r","i","p","t","i","o","n">>, "project.description">>,
       <<<<"p","r","o","j","e","c","t"," ","d","e","t","a","i","l","s">>, "project.description">>,
       <<<<"r","e","s","u","m","e">>, "resume_file">>,
       <<<<"r","e","s","u","m","e"," ","f","i","l","e">>, "resume_file">>,
       <<<<"c","v">>, "resume_file">>,
       <<<<"c","v"," ","f","i","l","e">>, "resume_file">>,
       <<<<"u","p","l","o","a","d"," ","r","e","s","u","m","e">>, "resume_file">>,
       <<<<"a","t","t","a","c","h"," ","r","e","s","u","m","e">>, "resume_file">>,
       <<<<"c","o","v","e","r"," ","l","e","t","t","e","r">>, "cover_letter">>,
       <<<<"c","o","v","e","r"," ","l","e","t","t","e","r"," ","f","i","l","e">>, "cover_letter">>,
       <<<<"u","p","l","o","a","d"," ","c","o","v","e","r"," ","l","e","t","t","e","r">>, "cover_letter">>,
       <<<<"a","v","a","i","l","a","b","i","l","i","t","y">>, "availability">>,
       <<<<"a","v","a","i","l","a","b","l","e">>, "availability">>,
       <<<<"w","h","e","n"," ","c","a","n"," ","y","o","u"," ","s","t","a","r","t">>, "availability">>,
       <<<<"s","a","l","a","r","y">>, "salary_expectation">>,
       <<<<"s","a","l","a","r","y"," ","e","x","p","e","c","t","a","t","i","o","n">>, "salary_expectation">>,
       <<<<"e","x","p","e","c","t","e","d"," ","s","a","l","a","r","y">>, "salary_expectation">>,
       <<<<"d","e","s","i","r","e","d"," ","s","a","l","a","r","y">>, "salary_expectation">>,
       <<<<"c","o","m","p","e","n","s","a","t","i","o","n">>, "salary_expectation">>,
       <<<<"w","o","r","k"," ","a","u","t","h","o","r","i","z","a","t","i","o","n">>, "work_authorization">>,
       <<<<"a","u","t","h","o","r","i","z","e","d"," ","t","o"," ","w","o","r","k">>, "work_authorization">>,
       <<<<"w","o","r","k"," ","p","e","r","m","i","t">>, "work_authorization">>,
       <<<<"v","i","s","a"," ","s","t","a","t","u","s">>, "work_authorization">>,
       <<<<"l","e","g","a","l"," ","r","i","g","h","t"," ","t","o"," ","w","o","r","k">>, "work_authorization">>
    >>


(***************************************************************************)
(* difflib.SequenceMatcher(None, a, b).ratio() for texts under 200         *)
(* characters (no junk, no popularity heuristic).                          *)
(***************************************************************************)
RECURSIVE RunLen(_, _, _, _, _, _)
RunLen(a, i, ahi, b, j, bhi) ==
    IF i > ahi \/ j > bhi THEN 0
    ELSE IF a[i] # b[j] THEN 0
    ELSE 1 + RunLen(a, i + 1, ahi, b, j + 1, bhi)

\* <<i, j, k>>: the longest block a[i..i+k-1] = b[j..j+k-1] inside the
\* given ranges, the one starting earliest in a, then earliest in b
LongestAmong(starts, size) ==
    IF starts = {} THEN 0 ELSE Max({size[p] : p \in starts})

EarliestOfSize(starts, size, k) ==
    CHOOSE p \in starts :
        /\ size[p] = k
        /\ \A q \in starts : size[q] = k => (p[1] < q[1] \/ (p[1] = q[1] /\ p[2] <= q[2]))

BlockOfSize(alo, blo, starts, size, k) ==
    IF k = 0 THEN <<alo, blo, 0>> ELSE EarliestOfSize(starts, size, k) \o <<k>>

BlockAmong(a, alo, ahi, b, blo, bhi, starts) ==
    BlockOfSize(alo, blo, starts, [p \in starts |-> RunLen(a, p[1], ahi, b, p[2], bhi)],
                LongestAmong(starts, [p \in starts |-> RunLen(a, p[1], ahi, b, p[2], bhi)]))

find_longest_match(a, alo, ahi, b, blo, bhi) ==
    BlockAmong(a, alo, ahi, b, blo, bhi,
               {p \in (alo..ahi) \X (blo..bhi) : a[p[1]] = b[p[2]]})

\* total size of the blocks get_matching_blocks finds: the longest block m,
\* then the blocks to its left and to its right
RECURSIVE MatchingSize(_, _, _, _, _, _)
AroundBlock(a, alo, ahi, b, blo, bhi, m) ==
    IF m[3] = 0 THEN 0
    ELSE m[3] + MatchingSize(a, alo, m[1] - 1, b, blo, m[2] - 1)
              + MatchingSize(a, m[1] + m[3], ahi, b, m[2] + m[3], bhi)

MatchingSize(a, alo, ahi, b, blo, bhi) ==
    IF alo > ahi \/ blo > bhi THEN 0
    ELSE AroundBlock(a, alo, ahi, b, blo, bhi, find_longest_match(a, alo, ahi, b, blo, bhi))

ratio(a, b) ==
    IF Len(a) + Len(b) = 0 THEN One
    ELSE <<2 * MatchingSize(a, 1, Len(a), b, 1, Len(b)), Len(a) + Len(b)>>

(***************************************************************************)
(* fuzzy_match_field.                                                      *)
(***************************************************************************)
PartialBoost == <<17, 20>>

\* "score = max(score, 0.85)" for a partial match
Boosted(score, partial_match) == IF partial_match THEN RatMax(score, PartialBoost) ELSE score

\* "if ats_field in normalized or normalized in ats_field"
PartialMatch(normalized, ats_field) ==
    Contains(ats_field, normalized) \/ Contains(normalized, ats_field)

ScoreOf(ats_field, canonical, score, partial_match) ==
    [field         |-> ats_field,
     canonical     |-> canonical,
     similarity    |-> Boosted(score, partial_match),
     partial_match |-> partial_match]

ScoreOfKey(normalized, ats_field, canonical) ==
    ScoreOf(ats_field, canonical, ratio(normalized, ats_field),
            PartialMatch(normalized, ats_field))

\* one iteration of the loop over ATS_FIELD_MAPPINGS.items(): the score of
\* the k-th key against the normalized name
KeyScore(normalized, k) ==
    ScoreOfKey(normalized, ATS_FIELD_MAPPINGS[k][1], ATS_FIELD_MAPPINGS[k][2])

\* a variant in which a key with an equal score replaces the best one
BetterOrEqual(score, best_score) == RatLe(best_score, score)

\* "if score > best_score": a key replaces the best one only when strictly better
Better(score, best_score) == RatLt(best_score, score)

NoBest == [best_score |-> Zero, best_match |-> NoField, best_matched_field |-> None]

\* The loop over the keys lo..hi in table order, entered with a best match
\* and returning the best match after the last key.  A range of several keys
\* is walked as its first half followed by its second half; a first half
\* that ends without a match has left the best match as it entered.
RECURSIVE ScanFrom(_, _, _, _)
SecondHalf(scores, lo, hi, best, first_half) ==
    IF first_half.best_match = NoField
    THEN ScanFrom(scores, ((lo + hi) \div 2) + 1, hi, best)
    ELSE ScanFrom(scores, ((lo + hi) \div 2) + 1, hi, first_half)

ScanFrom(scores, lo, hi, best) ==
    IF lo > hi THEN best
    ELSE IF lo = hi
    THEN IF Better(scores[lo].similarity, best.best_score)
         THEN [best_score         |-> scores[lo].similarity,
               best_match         |-> scores[lo].canonical,
               best_matched_field |-> scores[lo].field]
         ELSE best
    ELSE SecondHalf(scores, lo, hi, best, ScanFrom(scores, lo, (lo + hi) \div 2, best))

\* alternatives.sort(key=similarity, reverse=True)[:n]: a stable sort, so
\* among equal scores the earlier key comes first
FirstOfTop(scores, rest) ==
    CHOOSE i \in rest : \A j \in rest :
        \/ RatLt(scores[j].similarity, scores[i].similarity)
        \/ (RatEq(scores[j].similarity, scores[i].similarity) /\ i <= j)

RECURSIVE TopAlternatives(_, _, _)
TopFrom(scores, rest, n, k) == <<scores[k]>> \o TopAlternatives(scores, rest \ {k}, n - 1)

TopAlternatives(scores, rest, n) ==
    IF n = 0 \/ rest = {} THEN << >> ELSE TopFrom(scores, rest, n, FirstOfTop(scores, rest))

WithAlternatives(best, alternatives) ==
    [best_score         |-> best.best_score,
     best_match         |-> best.best_match,
     best_matched_field |-> best.best_matched_field,
     alternatives       |-> alternatives]

ScanOf(scores) ==
    WithAlternatives(ScanFrom(scores, 1, Len(scores), NoBest),
                     TopAlternatives(scores, DOMAIN scores, 5))

\* the whole scan of a normalized name that is not a key of the table:
\* best_score, best_match, best_matched_field and the alternatives
ScanSynonyms(normalized) ==
    ScanOf(SubSeq([k \in 1..Len(ATS_FIELD_MAPPINGS) |-> KeyScore(normalized, k)],
                  1, Len(ATS_FIELD_MAPPINGS)))

(***************************************************************************)
(* The inputs of the model.                                                *)
(***************************************************************************)
\* the field names the calls draw from
FieldNames ==
    {
     <<"I","n","t","e","r","n","a","l"," ","U","s","e"," ","O","n","l","y">>,   \* 'Internal Use Only' blacklisted
     <<"C","o","m","m","e","n","t">>,   \* 'Comment' blacklisted by an anchored pattern
     <<"H","i","d","d","e","n"," ","S","k","i","l","l","s">>,   \* 'Hidden Skills' blacklisted; its text also contains the key 'skills'
     <<"E","m","a","i","l">>,   \* 'Email' exact, CRITICAL
     <<" "," ","R","e","q","u","i","r","e","d",":"," ","E","m","a","i","l"," ","A","d","d","r","e","s","s"," ","(","R","e","q","u","i","r","e","d",")"," ">>,   \* '  Required: Email Address (Required) ' exact once the decorations are stripped
     <<"E","-","M","a","i","l"," ","A","d","d","r","e","s">>,   \* 'E-Mail Addres' fuzzy 26/27 to 'e-mail address', CRITICAL
     <<"P","h","o","n","e"," ","N","u","m","b","r">>,   \* 'Phone Numbr' fuzzy 22/23 to 'phone number', CRITICAL
     <<"M","y"," ","E","m","a","i","l">>,   \* 'My Email' partial match, boosted to 0.85, CRITICAL
     <<"M","y"," ","S","k","i","l","l","s">>,   \* 'My Skills' partial match, boosted to 0.85, STANDARD
     <<"F","i","r","s","t"," ","N","a","m","e">>,   \* 'First Name' exact, HIGH, derived from name
     <<"L","a","s","t"," ","N","a","m">>,   \* 'Last Nam' fuzzy, HIGH
     <<"M","a","j","o","r">>,   \* 'Major' exact, education.major
     <<"D","e","g","r","e","e">>,   \* 'Degree' exact, education.degree
     <<"G","r","a","d","u","a","t","i","o","n"," ","Y","r">>,   \* 'Graduation Yr' fuzzy, MEDIUM, education.end_date
     <<"J","o","b"," ","T","i","t","l">>,   \* 'Job Titl' fuzzy, experience.title
     <<"C","u","r","r","e","n","t"," ","J","o","b">>,   \* 'Current Job' exact, experience.current
     <<"P","r","o","j","e","c","t"," ","D","e","s","c","r","i","p","t","i","o","n">>,   \* 'Project Description' exact, project.description
     <<"P","r","o","j","e","c","t"," ","N","a","m">>,   \* 'Project Nam' fuzzy, project.name
     <<"z","z","z">>,   \* 'zzz' no key comes close
     <<>>    \* '' the empty name
    }

\* scores of the scan, computed once per normalized name
ScanCache ==
    [normalized \in {normalize_field_name(f, FALSE).normalized : f \in FieldNames} |->
        ScanSynonyms(normalized)]

\* the scan of a normalized name
Scanned(normalized) ==
    IF normalized \in DOMAIN ScanCache THEN ScanCache[normalized] ELSE ScanSynonyms(normalized)

NoExplanation == [present |-> FALSE]

Explanation(explain, field_name, norm_result, matching) ==
    IF explain
    THEN [present |-> TRUE,
          normalization |-> [original |-> field_name, normalized |-> norm_result.normalized,
                             steps |-> norm_result.steps],
          matching |-> matching]
    ELSE NoExplanation

\* "if normalized in ATS_FIELD_MAPPINGS": return the field of that key
ExactMatch(field_name, threshold, explain, norm_result, k) ==
    [field |-> ATS_FIELD_MAPPINGS[k][2],
     raw_score |-> One,
     explanation |->
         Explanation(explain, field_name, norm_result,
                     [method |-> "exact", matched_field |-> norm_result.normalized,
                      similarity_score |-> One, alternatives_considered |-> << >>,
                      threshold |-> threshold])]

\* "if best_score >= threshold"
MeetsThreshold(best_score, threshold) == RatLe(threshold, best_score)

\* a variant that returns the best score found
BelowThresholdBest(best_score) == best_score

\* "return None, 0.0, explanation": the score returned below the threshold
BelowThresholdScore(best_score) == Zero

\* the return after the scan
ScanOutcome(field_name, threshold, explain, norm_result, scan) ==
    [field |-> IF MeetsThreshold(scan.best_score, threshold) THEN scan.best_match ELSE NoField,
     raw_score |-> IF MeetsThreshold(scan.best_score, threshold) THEN scan.best_score
                   ELSE BelowThresholdScore(scan.best_score),
     explanation |->
         Explanation(explain, field_name, norm_result,
                     [method |-> IF MeetsThreshold(scan.best_score, threshold)
                                 THEN "fuzzy" ELSE "none",
                      matched_field |-> scan.best_matched_field,
                      similarity_score |-> scan.best_score,
                      alternatives_considered |-> scan.alternatives,
                      threshold |-> threshold])]

MatchNormalized(field_name, threshold, explain, norm_result, exact) ==
    IF exact # {}
    THEN ExactMatch(field_name, threshold, explain, norm_result, CHOOSE k \in exact : TRUE)
    ELSE ScanOutcome(field_name, threshold, explain, norm_result, Scanned(norm_result.normalized))

LookUp(field_name, threshold, explain, norm_result) ==
    MatchNormalized(field_name, threshold, explain, norm_result,
                    {k \in DOMAIN ATS_FIELD_MAPPINGS : ATS_FIELD_MAPPINGS[k][1] = norm_result.normalized})

\* returns [field, raw_score, explanation]
fuzzy_match_field(field_name, threshold, explain) ==
    LookUp(field_name, threshold, explain, normalize_field_name(field_name, explain))

(***************************************************************************)
(* Resume entries and the entry selectors.                                 *)
(***************************************************************************)
\* dict.get(key) and dict.get(key, default)
Get(entry, key) == IF key \in DOMAIN entry THEN entry[key] ELSE None

GetOr(entry, key, default) == IF key \in DOMAIN entry THEN entry[key] ELSE default

\* an entry that is None
NoEntry == [isNone |-> TRUE]

\* a year that is None
NoYear == 0 - 1

DigitValue(c) == (CHOOSE i \in DOMAIN DigitChars : DigitChars[i] = c) - 1

RECURSIVE DecimalValue(_, _)
DecimalValue(digits, acc) ==
    IF digits = << >> THEN acc
    ELSE DecimalValue(Tail(digits), 10 * acc + DigitValue(Head(digits)))

\* int(text): surrounding whitespace, one sign and single underscores between
\* digits are accepted; ParseError stands for ValueError
ParseError == 0 - 2

IsSigned(t) == t # << >> /\ t[1] \in {"+", "-"}

WellFormed(body, digits) ==
    /\ digits # << >>
    /\ \A i \in DOMAIN digits : digits[i] \in Range(DigitChars)
    /\ body[1] # "_" /\ body[Len(body)] # "_"
    /\ \A i \in 1..(Len(body) - 1) : ~(body[i] = "_" /\ body[i + 1] = "_")

IntOfDigits(negative, body, digits) ==
    IF ~WellFormed(body, digits) THEN ParseError
    ELSE IF negative THEN 0 - DecimalValue(digits, 0)
    ELSE DecimalValue(digits, 0)

IntOfBody(negative, body) == IntOfDigits(negative, body, SelectSeq(body, LAMBDA c : c # "_"))

IntOfStripped(t) ==
    IntOfBody(IsSigned(t) /\ t[1] = "-", IF IsSigned(t) THEN Tail(t) ELSE t)

int(text) == IntOfStripped(str_strip(text))

MinYear == 1900

MaxYear == 2100

\* "if 1900 <= year <= 2100: return year", None after a ValueError
YearInRange(year) ==
    IF year # ParseError /\ MinYear <= year /\ year <= MaxYear THEN year ELSE NoYear

_parse_year(year_str) ==
    IF ~Truthy(year_str) THEN NoYear ELSE YearInRange(int(year_str))

DegreeTerms ==
    <<[level |-> 4, terms |-> {<<"p","h","d">>, <<"p","h",".","d">>,
                               <<"d","o","c","t","o","r","a","t","e">>, <<"d",".","p","h","i","l">>}],
      [level |-> 3, terms |-> {<<"m","a","s","t","e","r">>, <<"m",".","s">>, <<"m",".","a">>,
                               <<"m","b","a">>, <<"m",".","t","e","c","h">>}],
      [level |-> 2, terms |-> {<<"b","a","c","h","e","l","o","r">>, <<"b",".","s">>, <<"b",".","a">>,
                               <<"b",".","t","e","c","h">>, <<"b",".","e">>}],
      [level |-> 1, terms |-> {<<"a","s","s","o","c","i","a","t","e">>, <<"d","i","p","l","o","m","a">>}]>>

\* the first branch of the if/elif chain one of whose terms the text contains
LevelOfHits(hits) == IF hits = {} THEN 0 ELSE DegreeTerms[Min(hits)].level

LevelOfLower(degree_lower) ==
    LevelOfHits({k \in DOMAIN DegreeTerms :
                    \E term \in DegreeTerms[k].terms : Contains(degree_lower, term)})

_get_degree_level(degree) ==
    IF ~Truthy(degree) THEN 0 ELSE LevelOfLower(str_lower(degree))

\* Python "x or y" on Optional[str]
Or(x, y) == IF Truthy(x) THEN x ELSE y

MOST_RECENT == "most_recent"

LONGEST == "longest"

HIGHEST_DEGREE == "highest_degree"

SelectionStrategy == {MOST_RECENT, LONGEST, HIGHEST_DEGREE}

\* The selectors keep the source's 0-based indices: entry idx of the source
\* is list[idx + 1] here.  A selection is <<idx, entry>>.
NoSelection == <<NoIndex, NoEntry>>

\* a variant that pairs the index with the first entry
SelectionFirstEntry(list, idx) == <<idx, list[1]>>

\* "return idx, entry", "return best_idx, education_list[best_idx]"
Selection(list, idx) == <<idx, list[idx + 1]>>

\* a variant in which an equal end year replaces the best one
LaterOrEqual(end_year, best_year) == best_year = NoYear \/ end_year >= best_year

\* "if best_year is None or end_year > best_year"
Later(end_year, best_year) == best_year = NoYear \/ end_year > best_year

\* the MOST_RECENT loop from position idx on
RECURSIVE MostRecentFrom(_, _, _, _)
MostRecentStep(list, idx, best_idx, best_year, end_year) ==
    IF end_year = NoYear THEN Selection(list, idx)
    ELSE IF Later(end_year, best_year)
         THEN MostRecentFrom(list, idx + 1, idx, end_year)
         ELSE MostRecentFrom(list, idx + 1, best_idx, best_year)

MostRecentFrom(list, idx, best_idx, best_year) ==
    IF idx >= Len(list) THEN Selection(list, best_idx)
    ELSE MostRecentStep(list, idx, best_idx, best_year,
                        _parse_year(Get(list[idx + 1], "end_year")))

\* truth of an Optional[int]: neither None nor 0
YearTruthy(year) == year # NoYear /\ year # 0

\* "if duration > best_duration"
Longer(duration, best_duration) == duration > best_duration

\* the first pass of LONGEST from position idx on:
\* <<best_idx, best_duration, ongoing_idx>>
RECURSIVE LongestFrom(_, _, _, _, _)
LongestStep(list, idx, best_idx, best_duration, ongoing_idx, start_year, end_year) ==
    IF YearTruthy(start_year) /\ YearTruthy(end_year)
    THEN IF Longer(end_year - start_year, best_duration)
         THEN LongestFrom(list, idx + 1, idx, end_year - start_year, ongoing_idx)
         ELSE LongestFrom(list, idx + 1, best_idx, best_duration, ongoing_idx)
    ELSE IF YearTruthy(start_year) /\ end_year = NoYear
         THEN LongestFrom(list, idx + 1, best_idx, best_duration, idx)
         ELSE LongestFrom(list, idx + 1, best_idx, best_duration, ongoing_idx)

LongestFrom(list, idx, best_idx, best_duration, ongoing_idx) ==
    IF idx >= Len(list) THEN <<best_idx, best_duration, ongoing_idx>>
    ELSE LongestStep(list, idx, best_idx, best_duration, ongoing_idx,
                     _parse_year(Get(list[idx + 1], "start_year")),
                     _parse_year(Get(list[idx + 1], "end_year")))

\* the returns after the first pass
AfterLongestPass(list, best_idx, best_duration, ongoing_idx) ==
    IF best_duration >= 0 THEN Selection(list, best_idx)
    ELSE IF ongoing_idx # NoIndex THEN Selection(list, ongoing_idx)
    ELSE Selection(list, 0)

LongestOf(list, pass) == AfterLongestPass(list, pass[1], pass[2], pass[3])

SelectLongest(list) == LongestOf(list, LongestFrom(list, 0, 0, 0 - 1, NoIndex))

\* a variant in which an equal level replaces the best one
HigherOrEqual(level, best_level) == level >= best_level

\* "if level > best_level"
Higher(level, best_level) == level > best_level

\* the HIGHEST_DEGREE loop from position idx on
RECURSIVE HighestDegreeFrom(_, _, _, _)
HighestDegreeStep(list, idx, best_idx, best_level, level) ==
    IF Higher(level, best_level)
    THEN HighestDegreeFrom(list, idx + 1, idx, level)
    ELSE HighestDegreeFrom(list, idx + 1, best_idx, best_level)

HighestDegreeFrom(list, idx, best_idx, best_level) ==
    IF idx >= Len(list) THEN Selection(list, best_idx)
    ELSE HighestDegreeStep(list, idx, best_idx, best_level,
             _get_degree_level(Or(Get(list[idx + 1], "degree"), Get(list[idx + 1], "degree_raw"))))

_select_education_entry(education_list, strategy) ==
    IF education_list = << >> THEN NoSelection
    ELSE IF strategy = MOST_RECENT THEN MostRecentFrom(education_list, 0, 0, NoYear)
    ELSE IF strategy = LONGEST THEN SelectLongest(education_list)
    ELSE IF strategy = HIGHEST_DEGREE THEN HighestDegreeFrom(education_list, 0, 0, 0 - 1)
    ELSE Selection(education_list, 0)

\* HIGHEST_DEGREE falls back to the MOST_RECENT branch
_select_experience_entry(experience_list, strategy) ==
    IF experience_list = << >> THEN NoSelection
    ELSE IF strategy = LONGEST THEN SelectLongest(experience_list)
    ELSE MostRecentFrom(experience_list, 0, 0, NoYear)

\* len(description) if description else 0
LengthOf(description) == IF Truthy(description) THEN Len(description) ELSE 0

DescriptionLength(entry) == LengthOf(GetOr(entry, "description", << >>))

RECURSIVE LongestDescriptionFrom(_, _, _, _)
LongestDescriptionStep(list, idx, best_idx, best_length, length) ==
    IF length > best_length
    THEN LongestDescriptionFrom(list, idx + 1, idx, length)
    ELSE LongestDescriptionFrom(list, idx + 1, best_idx, best_length)

LongestDescriptionFrom(list, idx, best_idx, best_length) ==
    IF idx >= Len(list) THEN Selection(list, best_idx)
    ELSE LongestDescriptionStep(list, idx, best_idx, best_length, DescriptionLength(list[idx + 1]))

_select_project_entry(projects_list, strategy) ==
    IF projects_list = << >> THEN NoSelection
    ELSE IF strategy = LONGEST THEN LongestDescriptionFrom(projects_list, 0, 0, 0 - 1)
    ELSE Selection(projects_list, 0)

(***************************************************************************)
(* map_field_to_schema_path.                                               *)
(***************************************************************************)
\* the text of every canonical field value
FieldText ==
    ("first_name" :> <<"f","i","r","s","t","_","n","a","m","e">>) @@
    ("last_name" :> <<"l","a","s","t","_","n","a","m","e">>) @@
    ("full_name" :> <<"f","u","l","l","_","n","a","m","e">>) @@
    ("email" :> <<"e","m","a","i","l">>) @@
    ("phone" :> <<"p","h","o","n","e">>) @@
    ("phone_number" :> <<"p","h","o","n","e","_","n","u","m","b","e","r">>) @@
    ("address" :> <<"a","d","d","r","e","s","s">>) @@
    ("city" :> <<"c","i","t","y">>) @@
    ("state" :> <<"s","t","a","t","e">>) @@
    ("zip_code" :> <<"z","i","p","_","c","o","d","e">>) @@
    ("country" :> <<"c","o","u","n","t","r","y">>) @@
    ("linkedin_url" :> <<"l","i","n","k","e","d","i","n","_","u","r","l">>) @@
    ("github_url" :> <<"g","i","t","h","u","b","_","u","r","l">>) @@
    ("portfolio_url" :> <<"p","o","r","t","f","o","l","i","o","_","u","r","l">>) @@
    ("website" :> <<"w","e","b","s","i","t","e">>) @@
    ("education.degree" :> <<"e","d","u","c","a","t","i","o","n",".","d","e","g","r","e","e">>) @@
    ("education.institution" :> <<"e","d","u","c","a","t","i","o","n",".","i","n","s","t","i","t","u","t","i","o","n">>) @@
    ("education.start_date" :> <<"e","d","u","c","a","t","i","o","n",".","s","t","a","r","t","_","d","a","t","e">>) @@
    ("education.end_date" :> <<"e","d","u","c","a","t","i","o","n",".","e","n","d","_","d","a","t","e">>) @@
    ("education.major" :> <<"e","d","u","c","a","t","i","o","n",".","m","a","j","o","r">>) @@
    ("education.gpa" :> <<"e","d","u","c","a","t","i","o","n",".","g","p","a">>) @@
    ("experience.title" :> <<"e","x","p","e","r","i","e","n","c","e",".","t","i","t","l","e">>) @@
    ("experience.company" :> <<"e","x","p","e","r","i","e","n","c","e",".","c","o","m","p","a","n","y">>) @@
    ("experience.start_date" :> <<"e","x","p","e","r","i","e","n","c","e",".","s","t","a","r","t","_","d","a","t","e">>) @@
    ("experience.end_date" :> <<"e","x","p","e","r","i","e","n","c","e",".","e","n","d","_","d","a","t","e">>) @@
    ("experience.description" :> <<"e","x","p","e","r","i","e","n","c","e",".","d","e","s","c","r","i","p","t","i","o","n">>) @@
    ("experience.current" :> <<"e","x","p","e","r","i","e","n","c","e",".","c","u","r","r","e","n","t">>) @@
    ("skills" :> <<"s","k","i","l","l","s">>) @@
    ("project.name" :> <<"p","r","o","j","e","c","t",".","n","a","m","e">>) @@
    ("project.description" :> <<"p","r","o","j","e","c","t",".","d","e","s","c","r","i","p","t","i","o","n">>) @@
    ("resume_file" :> <<"r","e","s","u","m","e","_","f","i","l","e">>) @@
    ("cover_letter" :> <<"c","o","v","e","r","_","l","e","t","t","e","r">>) @@
    ("availability" :> <<"a","v","a","i","l","a","b","i","l","i","t","y">>) @@
    ("salary_expectation" :> <<"s","a","l","a","r","y","_","e","x","p","e","c","t","a","t","i","o","n">>) @@
    ("work_authorization" :> <<"w","o","r","k","_","a","u","t","h","o","r","i","z","a","t","i","o","n">>)

\* str.split('.') of a canonical field value
RECURSIVE SplitOn(_, _)
SplitOn(text, sep) ==
    IF sep \notin Range(text) THEN <<text>>
    ELSE LET i == Min({k \in DOMAIN text : text[k] = sep})
         IN  <<SubSeq(text, 1, i - 1)>> \o SplitOn(SubSeq(text, i + 1, Len(text)), sep)

EducationText == <<"e","d","u","c","a","t","i","o","n">>

ExperienceText == <<"e","x","p","e","r","i","e","n","c","e">>

ProjectText == <<"p","r","o","j","e","c","t">>

ProjectsText == <<"p","r","o","j","e","c","t","s">>

\* Python values of mixed type (the 'value' of a result)
PyNone == [kind |-> "none"]

PyStr(s) == IF s = None THEN PyNone ELSE [kind |-> "str", s |-> s]

PyBool(b) == [kind |-> "bool", b |-> b]

PyList(items) == [kind |-> "list", items |-> items]

\* str.split(): the maximal runs of non-whitespace
RECURSIVE Words(_, _)
Words(text, i) ==
    LET start == SkipWs(text, i)
    IN  IF start > Len(text) THEN << >>
        ELSE LET stops == {k \in start..Len(text) : text[k] \in Whitespace}
                 stop  == IF stops = {} THEN Len(text) + 1 ELSE Min(stops)
             IN  <<SubSeq(text, start, stop - 1)>> \o Words(text, stop)

\* ' '.join(parts)
RECURSIVE Join(_)
Join(parts) ==
    IF parts = << >> THEN << >>
    ELSE IF Len(parts) = 1 THEN parts[1]
    ELSE parts[1] \o <<" ">> \o Join(Tail(parts))

FirstOf(parts) == IF parts # << >> THEN parts[1] ELSE None

_extract_first_name(full_name) ==
    IF ~Truthy(full_name) THEN None ELSE FirstOf(Words(str_strip(full_name), 1))

RestOf(parts) == IF Len(parts) >= 2 THEN Join(Tail(parts)) ELSE None

_extract_last_name(full_name) ==
    IF ~Truthy(full_name) THEN None ELSE RestOf(Words(str_strip(full_name), 1))

\* str(n) for n >= 0
RECURSIVE Decimal(_)
Decimal(n) == IF n < 10 THEN <<DigitChars[n + 1]>> ELSE Decimal(n \div 10) \o <<DigitChars[(n % 10) + 1]>>

\* f'{list_name}[{idx}].{key}'
IndexedPath(list_name, idx, key) == list_name \o <<"[">> \o Decimal(idx) \o <<"]", ".">> \o key

Chars_degree == <<"d","e","g","r","e","e">>

Chars_institution == <<"i","n","s","t","i","t","u","t","i","o","n">>

Chars_start_year == <<"s","t","a","r","t","_","y","e","a","r">>

Chars_end_year == <<"e","n","d","_","y","e","a","r">>

Chars_start_date == <<"s","t","a","r","t","_","d","a","t","e">>

Chars_end_date == <<"e","n","d","_","d","a","t","e">>

Chars_major == <<"m","a","j","o","r">>

Chars_gpa == <<"g","p","a">>

Chars_title == <<"t","i","t","l","e">>

Chars_company == <<"c","o","m","p","a","n","y">>

Chars_description == <<"d","e","s","c","r","i","p","t","i","o","n">>

Chars_current == <<"c","u","r","r","e","n","t">>

Chars_name == <<"n","a","m","e">>

Chars_in == <<" ","i","n"," ">>

Chars_phone == <<"p","h","o","n","e">>

Chars_skills == <<"s","k","i","l","l","s">>

\* text.split(sep, 1)[1] for a text that contains sep
AfterFirst(text, sep) ==
    LET i == Min({k \in 1..(Len(text) - Len(sep) + 1) : StartsWithAt(text, k, sep)})
    IN  SubSeq(text, i + Len(sep), Len(text))

\* outcomes of map_field_to_schema_path: a (schema_path, value) pair or a raised TypeError
Resolved(schema_path, value) == [raises |-> FALSE, schema_path |-> schema_path, value |-> value]

Unresolved == Resolved(None, PyNone)

RaisesTypeError == [raises |-> TRUE, schema_path |-> None, value |-> PyNone]

\* "degree = entry.get('degree') or entry.get('degree_raw', '')" followed by
\* "' in ' in degree", which raises TypeError when degree is None
MajorOf(idx, degree) ==
    IF degree = None THEN RaisesTypeError
    ELSE IF Contains(degree, Chars_in)
    THEN Resolved(IndexedPath(EducationText, idx, Chars_major), PyStr(AfterFirst(degree, Chars_in)))
    ELSE Resolved(IndexedPath(EducationText, idx, Chars_major), PyNone)

\* the 'education' branch once an entry is selected
EducationField(idx, entry, field) ==
    IF field = Chars_degree
    THEN Resolved(IndexedPath(EducationText, idx, Chars_degree), PyStr(Get(entry, "degree")))
    ELSE IF field = Chars_institution
    THEN Resolved(IndexedPath(EducationText, idx, Chars_institution), PyStr(Get(entry, "institution")))
    ELSE IF field = Chars_start_date
    THEN Resolved(IndexedPath(EducationText, idx, Chars_start_year), PyStr(Get(entry, "start_year")))
    ELSE IF field = Chars_end_date
    THEN Resolved(IndexedPath(EducationText, idx, Chars_end_year), PyStr(Get(entry, "end_year")))
    ELSE IF field = Chars_major
    THEN MajorOf(idx, Or(Get(entry, "degree"), GetOr(entry, "degree_raw", << >>)))
    ELSE IF field = Chars_gpa
    THEN Resolved(IndexedPath(EducationText, idx, Chars_gpa), PyStr(Get(entry, "gpa")))
    ELSE Unresolved

\* the 'experience' branch once an entry is selected
ExperienceField(idx, entry, field) ==
    IF field = Chars_title
    THEN Resolved(IndexedPath(ExperienceText, idx, Chars_title), PyStr(Get(entry, "title")))
    ELSE IF field = Chars_company
    THEN Resolved(IndexedPath(ExperienceText, idx, Chars_company), PyStr(Get(entry, "company")))
    ELSE IF field = Chars_start_date
    THEN Resolved(IndexedPath(ExperienceText, idx, Chars_start_year), PyStr(Get(entry, "start_year")))
    ELSE IF field = Chars_end_date
    THEN Resolved(IndexedPath(ExperienceText, idx, Chars_end_year), PyStr(Get(entry, "end_year")))
    ELSE IF field = Chars_description
    THEN Resolved(IndexedPath(ExperienceText, idx, Chars_description), PyStr(Get(entry, "description")))
    ELSE IF field = Chars_current
    THEN Resolved(IndexedPath(ExperienceText, idx, Chars_current), PyBool(Get(entry, "end_year") = None))
    ELSE Unresolved

\* the 'project' branch once an entry is selected
ProjectField(idx, entry, field) ==
    IF field = Chars_name
    THEN Resolved(IndexedPath(ProjectsText, idx, Chars_name), PyStr(Get(entry, "name")))
    ELSE IF field = Chars_description
    THEN Resolved(IndexedPath(ProjectsText, idx, Chars_description), PyStr(Get(entry, "description")))
    ELSE Unresolved

\* the top-level fields
ScalarField(field_str, resume_data) ==
    IF field_str = "full_name" THEN Resolved(Chars_name, PyStr(Get(resume_data, "name")))
    ELSE IF field_str = "first_name"
    THEN Resolved(Chars_name \o <<" ","(","f","i","r","s","t",")">>,
                  PyStr(_extract_first_name(Get(resume_data, "name"))))
    ELSE IF field_str = "last_name"
    THEN Resolved(Chars_name \o <<" ","(","l","a","s","t",")">>,
                  PyStr(_extract_last_name(Get(resume_data, "name"))))
    ELSE IF field_str = "phone_number" THEN Resolved(Chars_phone, PyStr(Get(resume_data, "phone")))
    ELSE IF field_str = "skills" THEN Resolved(Chars_skills, PyList(GetOr(resume_data, "skills", << >>)))
    ELSE Resolved(FieldText[field_str], PyStr(Get(resume_data, field_str)))

\* "if entry is None: return None, None", else the branch of the category
EducationEntry(sel, field) ==
    IF sel[2] = NoEntry THEN Unresolved ELSE EducationField(sel[1], sel[2], field)

ExperienceEntry(sel, field) ==
    IF sel[2] = NoEntry THEN Unresolved ELSE ExperienceField(sel[1], sel[2], field)

ProjectEntry(sel, field) ==
    IF sel[2] = NoEntry THEN Unresolved ELSE ProjectField(sel[1], sel[2], field)

\* the nested fields, parts == field_str.split('.')
NestedField(parts, resume_data, selection_strategy) ==
    IF parts[1] = EducationText
    THEN EducationEntry(_select_education_entry(GetOr(resume_data, "education", << >>),
                                                selection_strategy), parts[2])
    ELSE IF parts[1] = ExperienceText
    THEN ExperienceEntry(_select_experience_entry(GetOr(resume_data, "experience", << >>),
                                                  selection_strategy), parts[2])
    ELSE IF parts[1] = ProjectText
    THEN ProjectEntry(_select_project_entry(GetOr(resume_data, "projects", << >>),
                                            selection_strategy), parts[2])
    ELSE Unresolved

FieldOfText(field_str, text, resume_data, selection_strategy) ==
    IF "." \notin Range(text) THEN ScalarField(field_str, resume_data)
    ELSE NestedField(SplitOn(text, "."), resume_data, selection_strategy)

map_field_to_schema_path(canonical_field, resume_data, selection_strategy) ==
    FieldOfText(canonical_field, FieldText[canonical_field], resume_data, selection_strategy)

(***************************************************************************)
(* _build_selection_reasoning and _build_human_readable_summary.  A text   *)
(* is modelled by the branch that builds it and the values it prints.      *)
(***************************************************************************)
Reasoning(text, selected_index, detail) ==
    [raises |-> FALSE, text |-> text, selected_index |-> selected_index, detail |-> detail]

ReasoningRaises == [raises |-> TRUE]

LevelNames == <<"Other", "Associate", "Bachelor", "Master", "PhD">>

\* the LONGEST branch for education and experience
DurationReasoning(category, selected_index, start_year, end_year) ==
    IF YearTruthy(start_year) /\ YearTruthy(end_year)
    THEN Reasoning("longest duration", selected_index, end_year - start_year)
    ELSE IF end_year = NoYear
    THEN Reasoning("ongoing, treated as longest", selected_index, category)
    ELSE Reasoning("longest strategy", selected_index, category)

\* the LONGEST branch for project: len(desc) raises TypeError on None
DescriptionReasoning(selected_index, desc) ==
    IF desc = None THEN ReasoningRaises
    ELSE Reasoning("longest description", selected_index, Len(desc))

\* the branches once an entry is read
EntryReasoning(category, entry, selected_index, strategy) ==
    IF strategy = MOST_RECENT
    THEN IF category \in {"education", "experience"}
         THEN IF Get(entry, "end_year") = None
              THEN Reasoning("ongoing/current", selected_index, category)
              ELSE Reasoning("most recent end year", selected_index, Get(entry, "end_year"))
         ELSE Reasoning("most_recent strategy", selected_index, category)
    ELSE IF strategy = LONGEST
    THEN IF category \in {"education", "experience"}
         THEN DurationReasoning(category, selected_index,
                                _parse_year(Get(entry, "start_year")),
                                _parse_year(Get(entry, "end_year")))
         ELSE IF category = "project"
         THEN DescriptionReasoning(selected_index, GetOr(entry, "description", << >>))
         ELSE Reasoning("longest strategy", selected_index, category)
    ELSE IF strategy = HIGHEST_DEGREE
    THEN Reasoning("highest degree level", selected_index,
                   LevelNames[_get_degree_level(Or(Get(entry, "degree"),
                                                   GetOr(entry, "degree_raw", << >>))) + 1])
    ELSE Reasoning("strategy", selected_index, strategy)

_build_selection_reasoning(category, list_data, selected_index, strategy) ==
    IF list_data = << >> \/ selected_index = NoIndex
    THEN Reasoning("No entries available", NoIndex, category)
    ELSE IF Len(list_data) = 1
    THEN Reasoning("Only one entry available, selected automatically", NoIndex, category)
    ELSE EntryReasoning(category, list_data[selected_index + 1], selected_index, strategy)

_build_human_readable_summary(ats_field_name, canonical_field, match_type, confidence, selected_index, selection_strategy) ==
    [field     |-> ats_field_name,
     canonical |-> canonical_field,
     matched   |-> IF match_type = "exact" THEN <<"exactly matched">>
                   ELSE <<"fuzzy matched", confidence>>,
     selection |-> IF selected_index # NoIndex /\ selection_strategy # "<None>"
                   THEN <<selected_index, selection_strategy>> ELSE << >>]

(***************************************************************************)
(* map_ats_field.                                                          *)
(***************************************************************************)
CANONICAL_SCHEMA_VERSION == <<"1", ".", "0", ".", "0">>

\* the first "[digits]" of a path: the positions of its brackets
IndexBetween(schema_path, i) ==
    DecimalValue(SubSeq(schema_path, i + 1,
                        Min({k \in (i + 1)..Len(schema_path) : schema_path[k] = "]"}) - 1), 0)

IndexAmong(schema_path, opens) ==
    IF opens = {} THEN NoIndex ELSE IndexBetween(schema_path, Min(opens))

\* int(re.search(r'\[(\d+)\]', schema_path).group(1)), NoIndex without a match
ExtractIndex(schema_path) ==
    IndexAmong(schema_path,
               {i \in DOMAIN schema_path :
                   /\ schema_path[i] = "["
                   /\ \E j \in (i + 2)..Len(schema_path) :
                         /\ schema_path[j] = "]"
                         /\ \A k \in (i + 1)..(j - 1) : schema_path[k] \in Range(DigitChars)})

\* a variant that reports the first entry for every indexed path
SelectedIndexFirst(schema_path) ==
    IF Truthy(schema_path) /\ "[" \in Range(schema_path) THEN 0 ELSE NoIndex

\* "if schema_path and '[' in schema_path"
SelectedIndex(schema_path) ==
    IF Truthy(schema_path) /\ "[" \in Range(schema_path)
    THEN ExtractIndex(schema_path) ELSE NoIndex

SensitivityCategory(sensitivity_weight) ==
    IF RatEq(sensitivity_weight, <<1, 2>>) THEN "CRITICAL"
    ELSE IF RatEq(sensitivity_weight, <<7, 10>>) THEN "HIGH"
    ELSE IF RatEq(sensitivity_weight, <<17, 20>>) THEN "MEDIUM"
    ELSE "STANDARD"

\* what a call returns: None, a record, or a raised TypeError
ReturnsNone == [outcome |-> "None"]

Returns(record) == [outcome |-> "record", record |-> record]

Raises == [outcome |-> "TypeError"]

\* "match_type = 'exact' if raw_score == 1.0 else 'fuzzy'"
MatchType(raw_score) == IF RatEq(raw_score, One) THEN "exact" ELSE "fuzzy"

\* a variant that also rejects a confidence equal to the threshold
FailsThresholdAtBoundary(match_type, confidence, fuzzy_threshold) ==
    match_type = "fuzzy" /\ RatLe(confidence, fuzzy_threshold)

\* "if match_type == 'fuzzy' and confidence < fuzzy_threshold"
FailsThreshold(match_type, confidence, fuzzy_threshold) ==
    match_type = "fuzzy" /\ RatLt(confidence, fuzzy_threshold)

\* a variant that weights exact matches too
ConfidenceAlwaysWeighted(match_type, raw_score, sensitivity_weight) ==
    RatMul(raw_score, sensitivity_weight)

\* "if match_type == 'exact': confidence = 1.0", "else: confidence =
\* raw_score * sensitivity_weight"
Confidence(match_type, raw_score, sensitivity_weight) ==
    IF match_type = "exact" THEN One ELSE RatMul(raw_score, sensitivity_weight)

\* the 'ignored' record, and what explain adds to it
IgnoredResult(ats_field_name, matched_pattern) ==
    [canonical_field |-> NoField, schema_path |-> None, value |-> PyNone,
     match_type |-> "ignored", confidence |-> Zero, raw_score |-> Zero,
     sensitivity_weight |-> NoneFloat, selection_strategy |-> "<None>",
     selected_index |-> NoIndex, ats_field_name |-> ats_field_name,
     normalized_field_name |-> None,
     canonical_schema_version |-> CANONICAL_SCHEMA_VERSION,
     blacklist_reason |-> matched_pattern]

IgnoredExplained(result, ats_field_name, matched_pattern, fuzzy_threshold, norm) ==
    [result EXCEPT !.normalized_field_name = norm.normalized] @@
    [explainability |->
        [field_name_normalization |-> [original |-> ats_field_name,
                                       normalized |-> norm.normalized,
                                       steps |-> norm.steps],
         field_matching |-> [method |-> "ignored", matched_field |-> None,
                             alternatives_considered |-> << >>,
                             threshold |-> fuzzy_threshold,
                             pattern |-> matched_pattern],
         confidence_calculation |-> PyNone,
         selection |-> PyNone,
         human_readable_summary |-> <<"ignored", matched_pattern>>]]

\* the record of a blacklisted field
IgnoredRecord(ats_field_name, matched_pattern, fuzzy_threshold, explain) ==
    IF ~explain THEN IgnoredResult(ats_field_name, matched_pattern)
    ELSE IgnoredExplained(IgnoredResult(ats_field_name, matched_pattern), ats_field_name,
                          matched_pattern, fuzzy_threshold,
                          normalize_field_name(ats_field_name, TRUE))

NormalizedOf(match_explanation) ==
    IF match_explanation.present THEN match_explanation.normalization.normalized ELSE None

\* the diagnostic record of a name that matched no canonical field
UnmatchedRecord(ats_field_name, raw_score, match_explanation) ==
    [canonical_field |-> NoField, schema_path |-> None, value |-> PyNone,
     match_type |-> "<None>", confidence |-> Zero, raw_score |-> raw_score,
     sensitivity_weight |-> NoneFloat, selection_strategy |-> "<None>",
     selected_index |-> NoIndex, ats_field_name |-> ats_field_name,
     normalized_field_name |-> NormalizedOf(match_explanation),
     canonical_schema_version |-> CANONICAL_SCHEMA_VERSION,
     explainability |-> match_explanation]

ConfidenceCalculation(raw_score, sensitivity_weight, confidence, fuzzy_threshold, passed) ==
    [raw_score |-> raw_score, sensitivity_weight |-> sensitivity_weight,
     sensitivity_category |-> SensitivityCategory(sensitivity_weight),
     weighted_confidence |-> confidence, threshold |-> fuzzy_threshold,
     passed_threshold |-> passed]

\* the diagnostic record of a fuzzy match below the threshold
RejectedRecord(ats_field_name, canonical_field, raw_score, sensitivity_weight, confidence, fuzzy_threshold, match_explanation) ==
    [canonical_field |-> canonical_field, schema_path |-> None, value |-> PyNone,
     match_type |-> "fuzzy", confidence |-> confidence, raw_score |-> raw_score,
     sensitivity_weight |-> sensitivity_weight, selection_strategy |-> "<None>",
     selected_index |-> NoIndex, ats_field_name |-> ats_field_name,
     normalized_field_name |-> NormalizedOf(match_explanation),
     canonical_schema_version |-> CANONICAL_SCHEMA_VERSION,
     explainability |->
         [field_name_normalization |-> match_explanation.normalization,
          field_matching |-> match_explanation.matching,
          confidence_calculation |->
              ConfidenceCalculation(raw_score, sensitivity_weight, confidence, fuzzy_threshold, FALSE),
          selection |-> PyNone,
          human_readable_summary |-> <<"below threshold", canonical_field, confidence, fuzzy_threshold>>]]

\* the category whose list the field selects from: "if '.' in field_str",
\* "category = field_str.split('.')[0]",
\* "if category in ['education', 'experience', 'project']"
NoCategory == "<None>"

CategoryName(category) ==
    IF category = EducationText THEN "education"
    ELSE IF category = ExperienceText THEN "experience"
    ELSE IF category = ProjectText THEN "project"
    ELSE NoCategory

SelectionCategory(text) ==
    IF "." \notin Range(text) THEN NoCategory ELSE CategoryName(SplitOn(text, ".")[1])

\* a variant without the check
NoSuitableEntryUnchecked(category, path) == FALSE

\* "if schema_path is None or value is None" ... "return None"
NoSuitableEntry(category, path) ==
    (path.schema_path = None \/ path.value = PyNone) /\ category # NoCategory

\* The arguments of a call travel as one record, call; what the matching
\* found travels as one record, scored.
Call(ats_field_name, resume_data, selection_strategy, fuzzy_threshold, explain) ==
    [ats_field_name |-> ats_field_name, resume_data |-> resume_data,
     selection_strategy |-> selection_strategy, fuzzy_threshold |-> fuzzy_threshold,
     explain |-> explain]

Scored(canonical_field, match_type, raw_score, sensitivity_weight, confidence, explanation) ==
    [canonical_field |-> canonical_field, match_type |-> match_type, raw_score |-> raw_score,
     sensitivity_weight |-> sensitivity_weight, confidence |-> confidence,
     explanation |-> explanation]

\* a variant of the 'result' dict that carries a blacklist_reason of None
ResultRecordWithReason(call, scored, path, selected_index) ==
    [canonical_field |-> scored.canonical_field, schema_path |-> path.schema_path,
     value |-> path.value, match_type |-> scored.match_type,
     confidence |-> scored.confidence, raw_score |-> scored.raw_score,
     sensitivity_weight |-> scored.sensitivity_weight,
     selection_strategy |-> call.selection_strategy,
     selected_index |-> selected_index, ats_field_name |-> call.ats_field_name,
     normalized_field_name |-> NormalizedOf(scored.explanation),
     canonical_schema_version |-> CANONICAL_SCHEMA_VERSION,
     blacklist_reason |-> None]

\* the 'result' dict
ResultRecord(call, scored, path, selected_index) ==
    [canonical_field |-> scored.canonical_field, schema_path |-> path.schema_path,
     value |-> path.value, match_type |-> scored.match_type,
     confidence |-> scored.confidence, raw_score |-> scored.raw_score,
     sensitivity_weight |-> scored.sensitivity_weight,
     selection_strategy |-> call.selection_strategy,
     selected_index |-> selected_index, ats_field_name |-> call.ats_field_name,
     normalized_field_name |-> NormalizedOf(scored.explanation),
     canonical_schema_version |-> CANONICAL_SCHEMA_VERSION]

\* the 'explainability' dict of a mapped field
Explainability(call, scored, selected_index, selection) ==
    [field_name_normalization |-> scored.explanation.normalization,
     field_matching |-> scored.explanation.matching,
     confidence_calculation |->
         ConfidenceCalculation(scored.raw_score, scored.sensitivity_weight, scored.confidence,
                               call.fuzzy_threshold,
                               RatLe(call.fuzzy_threshold, scored.confidence)),
     selection |-> selection,
     human_readable_summary |->
         _build_human_readable_summary(
             call.ats_field_name, scored.canonical_field, scored.match_type, scored.confidence,
             selected_index,
             IF selected_index # NoIndex THEN call.selection_strategy ELSE "<None>")]

\* explainability['selection'] of a list field; building the reasoning may raise
WithSelection(call, scored, result, selected_index, category, list_data, reasoning) ==
    IF reasoning.raises THEN Raises
    ELSE Returns(result @@
           [explainability |->
               Explainability(call, scored, selected_index,
                              [category |-> category,
                               strategy |-> call.selection_strategy,
                               total_entries |-> Len(list_data),
                               selected_index |-> selected_index,
                               reasoning |-> reasoning])])

\* "list_data = resume_data.get(category, [])": the key read is the category name
SelectionOf(call, scored, result, selected_index, category, list_data) ==
    WithSelection(call, scored, result, selected_index, category, list_data,
                  _build_selection_reasoning(category, list_data, selected_index,
                                             call.selection_strategy))

\* a variant whose explained record leaves the value out
ExplainedWithoutValue(call, scored, result, selected_index, category) ==
    IF ~call.explain THEN Returns(result)
    ELSE Returns([result EXCEPT !.value = PyNone] @@
           [explainability |-> Explainability(call, scored, selected_index, PyNone)])

\* "if explain: result['explainability'] = explainability"
Explained(call, scored, result, selected_index, category) ==
    IF ~call.explain THEN Returns(result)
    ELSE IF category = NoCategory
    THEN Returns(result @@
           [explainability |-> Explainability(call, scored, selected_index, PyNone)])
    ELSE SelectionOf(call, scored, result, selected_index, category,
                     GetOr(call.resume_data, category, << >>))

BuildResult(call, scored, path, selected_index, category) ==
    Explained(call, scored, ResultRecord(call, scored, path, selected_index),
              selected_index, category)

\* after map_field_to_schema_path: "fail safely", then the selected index
AfterResolve(call, scored, path, category) ==
    IF path.raises THEN Raises
    ELSE IF NoSuitableEntry(category, path) THEN ReturnsNone
    ELSE BuildResult(call, scored, path, SelectedIndex(path.schema_path), category)

\* the tail of map_ats_field, after the threshold check
ResolveAndBuild(call, scored) ==
    AfterResolve(call, scored,
                 map_field_to_schema_path(scored.canonical_field, call.resume_data,
                                          call.selection_strategy),
                 SelectionCategory(FieldText[scored.canonical_field]))

\* the threshold check on the weighted confidence
AfterConfidence(call, scored) ==
    IF FailsThreshold(scored.match_type, scored.confidence, call.fuzzy_threshold)
    THEN IF call.explain
         THEN Returns(RejectedRecord(call.ats_field_name, scored.canonical_field,
                                     scored.raw_score, scored.sensitivity_weight,
                                     scored.confidence, call.fuzzy_threshold,
                                     scored.explanation))
         ELSE ReturnsNone
    ELSE ResolveAndBuild(call, scored)

\* match_type, sensitivity_weight and confidence of a matched field
AfterWeight(call, canonical_field, match_type, raw_score, sensitivity_weight, explanation) ==
    AfterConfidence(call, Scored(canonical_field, match_type, raw_score, sensitivity_weight,
                                 Confidence(match_type, raw_score, sensitivity_weight),
                                 explanation))

\* "if canonical_field is None": the diagnostic record or None
AfterMatch(call, match) ==
    IF match.field = NoField
    THEN IF call.explain
         THEN Returns(UnmatchedRecord(call.ats_field_name, match.raw_score, match.explanation))
         ELSE ReturnsNone
    ELSE AfterWeight(call, match.field, MatchType(match.raw_score), match.raw_score,
                     SensitivityWeight(match.field), match.explanation)

\* a variant that consults the blacklist only for a name the synonym table
\* does not match
MatchBeforeBlacklist(call, blacklisted) ==
    IF blacklisted[1]
       /\ fuzzy_match_field(call.ats_field_name, call.fuzzy_threshold, FALSE).field = NoField
    THEN Returns(IgnoredRecord(call.ats_field_name, blacklisted[2], call.fuzzy_threshold,
                               call.explain))
    ELSE AfterMatch(call, fuzzy_match_field(call.ats_field_name, call.fuzzy_threshold,
                                            call.explain))

\* "if is_blacklisted": the blacklist is checked before any matching
AfterBlacklist(call, blacklisted) ==
    IF blacklisted[1]
    THEN Returns(IgnoredRecord(call.ats_field_name, blacklisted[2], call.fuzzy_threshold,
                               call.explain))
    ELSE AfterMatch(call, fuzzy_match_field(call.ats_field_name, call.fuzzy_threshold,
                                            call.explain))

map_ats_field(ats_field_name, resume_data, selection_strategy, fuzzy_threshold, explain) ==
    AfterBlacklist(Call(ats_field_name, resume_data, selection_strategy, fuzzy_threshold,
                        explain),
                   is_field_blacklisted(ats_field_name))

(***************************************************************************)
(* map_multiple_fields, and how a call binds its keyword arguments.        *)
(***************************************************************************)
\* "results = {}": a dict is its keys in insertion order and their items
EmptyDict == [keys |-> << >>, item |-> << >>]

\* "if mapping:" None is falsy, a dict is truthy when it has a key
MappingTruthy(mapping) == mapping.outcome = "record" /\ DOMAIN mapping.record # {}

\* "results[field_name] = mapping": a new key goes last, a key that is
\* already there keeps its place and gets the new item
SetItem(results, field_name, mapping) ==
    [keys |-> IF field_name \in Range(results.keys) THEN results.keys
              ELSE Append(results.keys, field_name),
     item |-> [f \in Range(results.keys) \cup {field_name} |->
                  IF f = field_name THEN mapping ELSE results.item[f]]]

\* dict equality: the same keys with the same items, in whatever order
DictEq(a, b) == Range(a.keys) = Range(b.keys) /\ a.item = b.item

\* what map_multiple_fields returns: the dict
ReturnsDict(results) == [outcome |-> "dict", results |-> results]

RECURSIVE MapFieldsFrom(_, _, _)

\* a variant of the loop that ends at the first name without a mapping
MapFieldsStopAtNone(call, i, results, mapping) ==
    IF mapping.outcome = "TypeError" THEN Raises
    ELSE IF MappingTruthy(mapping)
    THEN MapFieldsFrom(call, i + 1, SetItem(results, call.ats_field_names[i], mapping.record))
    ELSE ReturnsDict(results)

\* the body of the loop, once map_ats_field has answered for the i-th name:
\* a raise leaves the function, a truthy mapping is stored
MapFieldsStep(call, i, results, mapping) ==
    IF mapping.outcome = "TypeError" THEN Raises
    ELSE MapFieldsFrom(call, i + 1,
                       IF MappingTruthy(mapping)
                       THEN SetItem(results, call.ats_field_names[i], mapping.record)
                       ELSE results)

\* "for field_name in ats_field_names", from the i-th name on
MapFieldsFrom(call, i, results) ==
    IF i > Len(call.ats_field_names) THEN ReturnsDict(results)
    ELSE MapFieldsStep(call, i, results,
                       map_ats_field(call.ats_field_names[i], call.resume_data,
                                     call.selection_strategy, call.fuzzy_threshold,
                                     call.explain))

map_multiple_fields(ats_field_names, resume_data, selection_strategy, fuzzy_threshold, explain) ==
    MapFieldsFrom([ats_field_names |-> ats_field_names, resume_data |-> resume_data,
                   selection_strategy |-> selection_strategy,
                   fuzzy_threshold |-> fuzzy_threshold, explain |-> explain],
                  1, EmptyDict)

\* The signatures of map_ats_field and map_multiple_fields name five
\* parameters and have no ** parameter: a call that passes any other keyword
\* raises TypeError before the body runs.
MapperAcceptsKeywords(kwargs) == kwargs = {}

\* a variant of map_ats_field that empties the skills list of the resume
ResumeWithSkillsCleared(resume_data) ==
    IF "skills" \in DOMAIN resume_data
    THEN [resume_data EXCEPT !.skills = << >>]
    ELSE resume_data

\* a variant of map_multiple_fields that leaves the education list reversed,
\* as a sort in place would
ResumeWithEducationReversed(ats_field_names, resume_data, selection_strategy, fuzzy_threshold, explain) ==
    IF "education" \in DOMAIN resume_data
    THEN [resume_data EXCEPT !.education =
              [i \in DOMAIN resume_data.education |->
                  resume_data.education[Len(resume_data.education) + 1 - i]]]
    ELSE resume_data

\* Neither function assigns to resume_data, to an entry of it or to a
\* module-level table: the resume after a call of map_ats_field is the
\* resume before it.
ResumeAfterMapAtsField(resume_data) == resume_data

RECURSIVE ResumeAfterFields(_, _, _)

\* the resume after the calls map_multiple_fields makes for the names from
\* the i-th on, up to a name whose call raises
ResumeAfterFields(call, i, resume_data) ==
    IF i > Len(call.ats_field_names) THEN resume_data
    ELSE IF map_ats_field(call.ats_field_names[i], resume_data, call.selection_strategy,
                          call.fuzzy_threshold, call.explain).outcome = "TypeError"
    THEN ResumeAfterMapAtsField(resume_data)
    ELSE ResumeAfterFields(call, i + 1, ResumeAfterMapAtsField(resume_data))

\* the resume after a call of map_multiple_fields: the function assigns to
\* its local results only, so what its calls of map_ats_field leave
ResumeAfterMapMultipleFields(ats_field_names, resume_data, selection_strategy, fuzzy_threshold, explain) ==
    ResumeAfterFields([ats_field_names |-> ats_field_names,
                       selection_strategy |-> selection_strategy,
                       fuzzy_threshold |-> fuzzy_threshold, explain |-> explain],
                      1, resume_data)

(***************************************************************************)
(* The tables of the normalizer: pairs of key and canonical form, in the   *)
(* order of the dict.                                                      *)
(***************************************************************************)
\* skill variations and their canonical forms
ATS_SKILL_MAPPINGS ==
    <<
      <<<<"j","s">>,
        <<"J","a","v","a","S","c","r","i","p","t">>>>,
      <<<<"j","a","v","a","s","c","r","i","p","t">>,
        <<"J","a","v","a","S","c","r","i","p","t">>>>,
      <<<<"j","s","/","t","s">>,
        <<"J","a","v","a","S","c","r","i","p","t","/","T","y","p","e","S","c","r","i","p","t">>>>,
      <<<<"t","s">>,
        <<"T","y","p","e","S","c","r","i","p","t">>>>,
      <<<<"t","y","p","e","s","c","r","i","p","t">>,
        <<"T","y","p","e","S","c","r","i","p","t">>>>,
      <<<<"c","+","+">>,
        <<"C","+","+">>>>,
      <<<<"c","p","p">>,
        <<"C","+","+">>>>,
      <<<<"c"," ","p","l","u","s"," ","p","l","u","s">>,
        <<"C","+","+">>>>,
      <<<<"c","#">>,
        <<"C","#">>>>,
      <<<<"c","s","h","a","r","p">>,
        <<"C","#">>>>,
      <<<<"c"," ","s","h","a","r","p">>,
        <<"C","#">>>>,
      <<<<"p","y","t","h","o","n">>,
        <<"P","y","t","h","o","n">>>>,
      <<<<"p","y">>,
        <<"P","y","t","h","o","n">>>>,
      <<<<"j","a","v","a">>,
        <<"J","a","v","a">>>>,
      <<<<"g","o">>,
        <<"G","o">>>>,
      <<<<"g","o","l","a","n","g">>,
        <<"G","o">>>>,
      <<<<"r","u","s","t">>,
        <<"R","u","s","t">>>>,
      <<<<"r","u","b","y">>,
        <<"R","u","b","y">>>>,
      <<<<"p","h","p">>,
        <<"P","H","P">>>>,
      <<<<"s","w","i","f","t">>,
        <<"S","w","i","f","t">>>>,
      <<<<"k","o","t","l","i","n">>,
        <<"K","o","t","l","i","n">>>>,
      <<<<"s","c","a","l","a">>,
        <<"S","c","a","l","a">>>>,
      <<<<"r">>,
        <<"R">>>>,
      <<<<"r","e","a","c","t">>,
        <<"R","e","a","c","t">>>>,
      <<<<"r","e","a","c","t",".","j","s">>,
        <<"R","e","a","c","t">>>>,
      <<<<"r","e","a","c","t","j","s">>,
        <<"R","e","a","c","t">>>>,
      <<<<"a","n","g","u","l","a","r">>,
        <<"A","n","g","u","l","a","r">>>>,
      <<<<"a","n","g","u","l","a","r",".","j","s">>,
        <<"A","n","g","u","l","a","r">>>>,
      <<<<"a","n","g","u","l","a","r","j","s">>,
        <<"A","n","g","u","l","a","r">>>>,
      <<<<"v","u","e">>,
        <<"V","u","e",".","j","s">>>>,
      <<<<"v","u","e",".","j","s">>,
        <<"V","u","e",".","j","s">>>>,
      <<<<"v","u","e","j","s">>,
        <<"V","u","e",".","j","s">>>>,
      <<<<"n","o","d","e">>,
        <<"N","o","d","e",".","j","s">>>>,
      <<<<"n","o","d","e",".","j","s">>,
        <<"N","o","d","e",".","j","s">>>>,
      <<<<"n","o","d","e","j","s">>,
        <<"N","o","d","e",".","j","s">>>>,
      <<<<"e","x","p","r","e","s","s">>,
        <<"E","x","p","r","e","s","s",".","j","s">>>>,
      <<<<"e","x","p","r","e","s","s",".","j","s">>,
        <<"E","x","p","r","e","s","s",".","j","s">>>>,
      <<<<"d","j","a","n","g","o">>,
        <<"D","j","a","n","g","o">>>>,
      <<<<"f","l","a","s","k">>,
        <<"F","l","a","s","k">>>>,
      <<<<"s","p","r","i","n","g">>,
        <<"S","p","r","i","n","g">>>>,
      <<<<"s","p","r","i","n","g"," ","b","o","o","t">>,
        <<"S","p","r","i","n","g"," ","B","o","o","t">>>>,
      <<<<"s","q","l">>,
        <<"S","Q","L">>>>,
      <<<<"m","y","s","q","l">>,
        <<"M","y","S","Q","L">>>>,
      <<<<"p","o","s","t","g","r","e","s","q","l">>,
        <<"P","o","s","t","g","r","e","S","Q","L">>>>,
      <<<<"p","o","s","t","g","r","e","s">>,
        <<"P","o","s","t","g","r","e","S","Q","L">>>>,
      <<<<"m","o","n","g","o","d","b">>,
        <<"M","o","n","g","o","D","B">>>>,
      <<<<"m","o","n","g","o">>,
        <<"M","o","n","g","o","D","B">>>>,
      <<<<"r","e","d","i","s">>,
        <<"R","e","d","i","s">>>>,
      <<<<"a","w","s">>,
        <<"A","W","S">>>>,
      <<<<"a","m","a","z","o","n"," ","w","e","b"," ","s","e","r","v","i","c","e","s">>,
        <<"A","W","S">>>>,
      <<<<"a","z","u","r","e">>,
        <<"A","z","u","r","e">>>>,
      <<<<"g","c","p">>,
        <<"G","C","P">>>>,
      <<<<"g","o","o","g","l","e"," ","c","l","o","u","d">>,
        <<"G","C","P">>>>,
      <<<<"d","o","c","k","e","r">>,
        <<"D","o","c","k","e","r">>>>,
      <<<<"k","u","b","e","r","n","e","t","e","s">>,
        <<"K","u","b","e","r","n","e","t","e","s">>>>,
      <<<<"k","8","s">>,
        <<"K","u","b","e","r","n","e","t","e","s">>>>,
      <<<<"g","i","t">>,
        <<"G","i","t">>>>,
      <<<<"g","i","t","h","u","b">>,
        <<"G","i","t","H","u","b">>>>,
      <<<<"g","i","t","l","a","b">>,
        <<"G","i","t","L","a","b">>>>,
      <<<<"m","l">>,
        <<"M","a","c","h","i","n","e"," ","L","e","a","r","n","i","n","g">>>>,
      <<<<"m","a","c","h","i","n","e"," ","l","e","a","r","n","i","n","g">>,
        <<"M","a","c","h","i","n","e"," ","L","e","a","r","n","i","n","g">>>>,
      <<<<"d","l">>,
        <<"D","e","e","p"," ","L","e","a","r","n","i","n","g">>>>,
      <<<<"d","e","e","p"," ","l","e","a","r","n","i","n","g">>,
        <<"D","e","e","p"," ","L","e","a","r","n","i","n","g">>>>,
      <<<<"d","s">>,
        <<"D","a","t","a"," ","S","c","i","e","n","c","e">>>>,
      <<<<"d","a","t","a"," ","s","c","i","e","n","c","e">>,
        <<"D","a","t","a"," ","S","c","i","e","n","c","e">>>>,
      <<<<"n","l","p">>,
        <<"N","L","P">>>>,
      <<<<"n","a","t","u","r","a","l"," ","l","a","n","g","u","a","g","e"," ","p","r","o","c","e","s","s","i","n","g">>,
        <<"N","L","P">>>>,
      <<<<"t","e","n","s","o","r","f","l","o","w">>,
        <<"T","e","n","s","o","r","F","l","o","w">>>>,
      <<<<"t","f">>,
        <<"T","e","n","s","o","r","F","l","o","w">>>>,
      <<<<"p","y","t","o","r","c","h">>,
        <<"P","y","T","o","r","c","h">>>>,
      <<<<"p","a","n","d","a","s">>,
        <<"P","a","n","d","a","s">>>>,
      <<<<"n","u","m","p","y">>,
        <<"N","u","m","P","y">>>>
    >>

\* degree names and their canonical forms
DEGREE_TAXONOMY ==
    <<
      <<<<"b","a","c","h","e","l","o","r"," ","o","f"," ","s","c","i","e","n","c","e">>,
        <<"B","a","c","h","e","l","o","r"," ","o","f"," ","S","c","i","e","n","c","e">>>>,
      <<<<"b","a","c","h","e","l","o","r"," ","o","f"," ","a","r","t","s">>,
        <<"B","a","c","h","e","l","o","r"," ","o","f"," ","A","r","t","s">>>>,
      <<<<"b","a","c","h","e","l","o","r"," ","o","f"," ","e","n","g","i","n","e","e","r","i","n","g">>,
        <<"B","a","c","h","e","l","o","r"," ","o","f"," ","E","n","g","i","n","e","e","r","i","n","g">>>>,
      <<<<"b","a","c","h","e","l","o","r"," ","o","f"," ","t","e","c","h","n","o","l","o","g","y">>,
        <<"B","a","c","h","e","l","o","r"," ","o","f"," ","T","e","c","h","n","o","l","o","g","y">>>>,
      <<<<"b","a","c","h","e","l","o","r"," ","o","f"," ","b","u","s","i","n","e","s","s"," ","a","d","m","i","n","i","s","t","r","a","t","i","o","n">>,
        <<"B","a","c","h","e","l","o","r"," ","o","f"," ","B","u","s","i","n","e","s","s"," ","A","d","m","i","n","i","s","t","r","a","t","i","o","n">>>>,
      <<<<"b","a","c","h","e","l","o","r"," ","o","f"," ","c","o","m","p","u","t","e","r"," ","s","c","i","e","n","c","e">>,
        <<"B","a","c","h","e","l","o","r"," ","o","f"," ","C","o","m","p","u","t","e","r"," ","S","c","i","e","n","c","e">>>>,
      <<<<"b","a","c","h","e","l","o","r"," ","o","f"," ","i","n","f","o","r","m","a","t","i","o","n"," ","t","e","c","h","n","o","l","o","g","y">>,
        <<"B","a","c","h","e","l","o","r"," ","o","f"," ","I","n","f","o","r","m","a","t","i","o","n"," ","T","e","c","h","n","o","l","o","g","y">>>>,
      <<<<"b","a","c","h","e","l","o","r"," ","o","f"," ","a","p","p","l","i","e","d"," ","s","c","i","e","n","c","e">>,
        <<"B","a","c","h","e","l","o","r"," ","o","f"," ","A","p","p","l","i","e","d"," ","S","c","i","e","n","c","e">>>>,
      <<<<"b","a","c","h","e","l","o","r"," ","o","f"," ","f","i","n","e"," ","a","r","t","s">>,
        <<"B","a","c","h","e","l","o","r"," ","o","f"," ","F","i","n","e"," ","A","r","t","s">>>>,
      <<<<"b","a","c","h","e","l","o","r"," ","o","f"," ","a","r","c","h","i","t","e","c","t","u","r","e">>,
        <<"B","a","c","h","e","l","o","r"," ","o","f"," ","A","r","c","h","i","t","e","c","t","u","r","e">>>>,
      <<<<"b","a","c","h","e","l","o","r"," ","o","f"," ","e","d","u","c","a","t","i","o","n">>,
        <<"B","a","c","h","e","l","o","r"," ","o","f"," ","E","d","u","c","a","t","i","o","n">>>>,
      <<<<"b","a","c","h","e","l","o","r"," ","o","f"," ","n","u","r","s","i","n","g">>,
        <<"B","a","c","h","e","l","o","r"," ","o","f"," ","N","u","r","s","i","n","g">>>>,
      <<<<"b","a","c","h","e","l","o","r"," ","o","f"," ","c","o","m","m","e","r","c","e">>,
        <<"B","a","c","h","e","l","o","r"," ","o","f"," ","C","o","m","m","e","r","c","e">>>>,
      <<<<"b","a","c","h","e","l","o","r"," ","o","f"," ","e","c","o","n","o","m","i","c","s">>,
        <<"B","a","c","h","e","l","o","r"," ","o","f"," ","E","c","o","n","o","m","i","c","s">>>>,
      <<<<"b","a","c","h","e","l","o","r"," ","o","f"," ","m","a","t","h","e","m","a","t","i","c","s">>,
        <<"B","a","c","h","e","l","o","r"," ","o","f"," ","M","a","t","h","e","m","a","t","i","c","s">>>>,
      <<<<"b","a","c","h","e","l","o","r"," ","o","f"," ","p","h","y","s","i","c","s">>,
        <<"B","a","c","h","e","l","o","r"," ","o","f"," ","P","h","y","s","i","c","s">>>>,
      <<<<"b","a","c","h","e","l","o","r"," ","o","f"," ","c","h","e","m","i","s","t","r","y">>,
        <<"B","a","c","h","e","l","o","r"," ","o","f"," ","C","h","e","m","i","s","t","r","y">>>>,
      <<<<"b","a","c","h","e","l","o","r"," ","o","f"," ","b","i","o","l","o","g","y">>,
        <<"B","a","c","h","e","l","o","r"," ","o","f"," ","B","i","o","l","o","g","y">>>>,
      <<<<"b","a","c","h","e","l","o","r"," ","o","f"," ","p","s","y","c","h","o","l","o","g","y">>,
        <<"B","a","c","h","e","l","o","r"," ","o","f"," ","P","s","y","c","h","o","l","o","g","y">>>>,
      <<<<"b","a","c","h","e","l","o","r"," ","o","f"," ","s","o","c","i","o","l","o","g","y">>,
        <<"B","a","c","h","e","l","o","r"," ","o","f"," ","S","o","c","i","o","l","o","g","y">>>>,
      <<<<"b","a","c","h","e","l","o","r"," ","o","f"," ","p","o","l","i","t","i","c","a","l"," ","s","c","i","e","n","c","e">>,
        <<"B","a","c","h","e","l","o","r"," ","o","f"," ","P","o","l","i","t","i","c","a","l"," ","S","c","i","e","n","c","e">>>>,
      <<<<"b","a","c","h","e","l","o","r"," ","o","f"," ","h","i","s","t","o","r","y">>,
        <<"B","a","c","h","e","l","o","r"," ","o","f"," ","H","i","s","t","o","r","y">>>>,
      <<<<"b","a","c","h","e","l","o","r"," ","o","f"," ","e","n","g","l","i","s","h">>,
        <<"B","a","c","h","e","l","o","r"," ","o","f"," ","E","n","g","l","i","s","h">>>>,
      <<<<"b","a","c","h","e","l","o","r"," ","o","f"," ","p","h","i","l","o","s","o","p","h","y">>,
        <<"B","a","c","h","e","l","o","r"," ","o","f"," ","P","h","i","l","o","s","o","p","h","y">>>>,
      <<<<"b","a","c","h","e","l","o","r"," ","o","f"," ","l","a","w">>,
        <<"B","a","c","h","e","l","o","r"," ","o","f"," ","L","a","w">>>>,
      <<<<"b","a","c","h","e","l","o","r"," ","o","f"," ","m","e","d","i","c","i","n","e">>,
        <<"B","a","c","h","e","l","o","r"," ","o","f"," ","M","e","d","i","c","i","n","e">>>>,
      <<<<"b","a","c","h","e","l","o","r"," ","o","f"," ","s","u","r","g","e","r","y">>,
        <<"B","a","c","h","e","l","o","r"," ","o","f"," ","S","u","r","g","e","r","y">>>>,
      <<<<"m","a","s","t","e","r"," ","o","f"," ","s","c","i","e","n","c","e">>,
        <<"M","a","s","t","e","r"," ","o","f"," ","S","c","i","e","n","c","e">>>>,
      <<<<"m","a","s","t","e","r"," ","o","f"," ","a","r","t","s">>,
        <<"M","a","s","t","e","r"," ","o","f"," ","A","r","t","s">>>>,
      <<<<"m","a","s","t","e","r"," ","o","f"," ","e","n","g","i","n","e","e","r","i","n","g">>,
        <<"M","a","s","t","e","r"," ","o","f"," ","E","n","g","i","n","e","e","r","i","n","g">>>>,
      <<<<"m","a","s","t","e","r"," ","o","f"," ","t","e","c","h","n","o","l","o","g","y">>,
        <<"M","a","s","t","e","r"," ","o","f"," ","T","e","c","h","n","o","l","o","g","y">>>>,
      <<<<"m","a","s","t","e","r"," ","o","f"," ","b","u","s","i","n","e","s","s"," ","a","d","m","i","n","i","s","t","r","a","t","i","o","n">>,
        <<"M","a","s","t","e","r"," ","o","f"," ","B","u","s","i","n","e","s","s"," ","A","d","m","i","n","i","s","t","r","a","t","i","o","n">>>>,
      <<<<"m","a","s","t","e","r"," ","o","f"," ","c","o","m","p","u","t","e","r"," ","s","c","i","e","n","c","e">>,
        <<"M","a","s","t","e","r"," ","o","f"," ","C","o","m","p","u","t","e","r"," ","S","c","i","e","n","c","e">>>>,
      <<<<"m","a","s","t","e","r"," ","o","f"," ","i","n","f","o","r","m","a","t","i","o","n"," ","t","e","c","h","n","o","l","o","g","y">>,
        <<"M","a","s","t","e","r"," ","o","f"," ","I","n","f","o","r","m","a","t","i","o","n"," ","T","e","c","h","n","o","l","o","g","y">>>>,
      <<<<"m","a","s","t","e","r"," ","o","f"," ","a","p","p","l","i","e","d"," ","s","c","i","e","n","c","e">>,
        <<"M","a","s","t","e","r"," ","o","f"," ","A","p","p","l","i","e","d"," ","S","c","i","e","n","c","e">>>>,
      <<<<"m","a","s","t","e","r"," ","o","f"," ","f","i","n","e"," ","a","r","t","s">>,
        <<"M","a","s","t","e","r"," ","o","f"," ","F","i","n","e"," ","A","r","t","s">>>>,
      <<<<"m","a","s","t","e","r"," ","o","f"," ","a","r","c","h","i","t","e","c","t","u","r","e">>,
        <<"M","a","s","t","e","r"," ","o","f"," ","A","r","c","h","i","t","e","c","t","u","r","e">>>>,
      <<<<"m","a","s","t","e","r"," ","o","f"," ","e","d","u","c","a","t","i","o","n">>,
        <<"M","a","s","t","e","r"," ","o","f"," ","E","d","u","c","a","t","i","o","n">>>>,
      <<<<"m","a","s","t","e","r"," ","o","f"," ","p","u","b","l","i","c"," ","a","d","m","i","n","i","s","t","r","a","t","i","o","n">>,
        <<"M","a","s","t","e","r"," ","o","f"," ","P","u","b","l","i","c"," ","A","d","m","i","n","i","s","t","r","a","t","i","o","n">>>>,
      <<<<"m","a","s","t","e","r"," ","o","f"," ","p","u","b","l","i","c"," ","h","e","a","l","t","h">>,
        <<"M","a","s","t","e","r"," ","o","f"," ","P","u","b","l","i","c"," ","H","e","a","l","t","h">>>>,
      <<<<"m","a","s","t","e","r"," ","o","f"," ","s","o","c","i","a","l"," ","w","o","r","k">>,
        <<"M","a","s","t","e","r"," ","o","f"," ","S","o","c","i","a","l"," ","W","o","r","k">>>>,
      <<<<"m","a","s","t","e","r"," ","o","f"," ","l","a","w">>,
        <<"M","a","s","t","e","r"," ","o","f"," ","L","a","w">>>>,
      <<<<"m","a","s","t","e","r"," ","o","f"," ","p","h","i","l","o","s","o","p","h","y">>,
        <<"M","a","s","t","e","r"," ","o","f"," ","P","h","i","l","o","s","o","p","h","y">>>>,
      <<<<"m","a","s","t","e","r"," ","o","f"," ","d","a","t","a"," ","s","c","i","e","n","c","e">>,
        <<"M","a","s","t","e","r"," ","o","f"," ","D","a","t","a"," ","S","c","i","e","n","c","e">>>>,
      <<<<"m","a","s","t","e","r"," ","o","f"," ","i","n","f","o","r","m","a","t","i","o","n"," ","s","y","s","t","e","m","s">>,
        <<"M","a","s","t","e","r"," ","o","f"," ","I","n","f","o","r","m","a","t","i","o","n"," ","S","y","s","t","e","m","s">>>>,
      <<<<"d","o","c","t","o","r"," ","o","f"," ","p","h","i","l","o","s","o","p","h","y">>,
        <<"P","h","D">>>>,
      <<<<"p","h","d">>,
        <<"P","h","D">>>>,
      <<<<"d","o","c","t","o","r"," ","o","f"," ","m","e","d","i","c","i","n","e">>,
        <<"D","o","c","t","o","r"," ","o","f"," ","M","e","d","i","c","i","n","e">>>>,
      <<<<"d","o","c","t","o","r"," ","o","f"," ","l","a","w">>,
        <<"D","o","c","t","o","r"," ","o","f"," ","L","a","w">>>>,
      <<<<"d","o","c","t","o","r"," ","o","f"," ","e","d","u","c","a","t","i","o","n">>,
        <<"D","o","c","t","o","r"," ","o","f"," ","E","d","u","c","a","t","i","o","n">>>>,
      <<<<"d","o","c","t","o","r"," ","o","f"," ","b","u","s","i","n","e","s","s"," ","a","d","m","i","n","i","s","t","r","a","t","i","o","n">>,
        <<"D","o","c","t","o","r"," ","o","f"," ","B","u","s","i","n","e","s","s"," ","A","d","m","i","n","i","s","t","r","a","t","i","o","n">>>>,
      <<<<"d","o","c","t","o","r"," ","o","f"," ","e","n","g","i","n","e","e","r","i","n","g">>,
        <<"D","o","c","t","o","r"," ","o","f"," ","E","n","g","i","n","e","e","r","i","n","g">>>>,
      <<<<"a","s","s","o","c","i","a","t","e"," ","o","f"," ","s","c","i","e","n","c","e">>,
        <<"A","s","s","o","c","i","a","t","e"," ","o","f"," ","S","c","i","e","n","c","e">>>>,
      <<<<"a","s","s","o","c","i","a","t","e"," ","o","f"," ","a","r","t","s">>,
        <<"A","s","s","o","c","i","a","t","e"," ","o","f"," ","A","r","t","s">>>>,
      <<<<"a","s","s","o","c","i","a","t","e"," ","o","f"," ","a","p","p","l","i","e","d"," ","s","c","i","e","n","c","e">>,
        <<"A","s","s","o","c","i","a","t","e"," ","o","f"," ","A","p","p","l","i","e","d"," ","S","c","i","e","n","c","e">>>>,
      <<<<"c","e","r","t","i","f","i","c","a","t","e">>,
        <<"C","e","r","t","i","f","i","c","a","t","e">>>>,
      <<<<"d","i","p","l","o","m","a">>,
        <<"D","i","p","l","o","m","a">>>>,
      <<<<"p","r","o","f","e","s","s","i","o","n","a","l"," ","c","e","r","t","i","f","i","c","a","t","e">>,
        <<"P","r","o","f","e","s","s","i","o","n","a","l"," ","C","e","r","t","i","f","i","c","a","t","e">>>>
    >>

\* degree abbreviations and their canonical forms
DEGREE_ABBREVIATIONS ==
    <<
      <<<<"b","s">>,
        <<"B","a","c","h","e","l","o","r"," ","o","f"," ","S","c","i","e","n","c","e">>>>,
      <<<<"b",".","s",".">>,
        <<"B","a","c","h","e","l","o","r"," ","o","f"," ","S","c","i","e","n","c","e">>>>,
      <<<<"b",".","s">>,
        <<"B","a","c","h","e","l","o","r"," ","o","f"," ","S","c","i","e","n","c","e">>>>,
      <<<<"b","a">>,
        <<"B","a","c","h","e","l","o","r"," ","o","f"," ","A","r","t","s">>>>,
      <<<<"b",".","a",".">>,
        <<"B","a","c","h","e","l","o","r"," ","o","f"," ","A","r","t","s">>>>,
      <<<<"b",".","a">>,
        <<"B","a","c","h","e","l","o","r"," ","o","f"," ","A","r","t","s">>>>,
      <<<<"b","e">>,
        <<"B","a","c","h","e","l","o","r"," ","o","f"," ","E","n","g","i","n","e","e","r","i","n","g">>>>,
      <<<<"b",".","e",".">>,
        <<"B","a","c","h","e","l","o","r"," ","o","f"," ","E","n","g","i","n","e","e","r","i","n","g">>>>,
      <<<<"b",".","e">>,
        <<"B","a","c","h","e","l","o","r"," ","o","f"," ","E","n","g","i","n","e","e","r","i","n","g">>>>,
      <<<<"b","t","e","c","h">>,
        <<"B","a","c","h","e","l","o","r"," ","o","f"," ","T","e","c","h","n","o","l","o","g","y">>>>,
      <<<<"b",".","t","e","c","h">>,
        <<"B","a","c","h","e","l","o","r"," ","o","f"," ","T","e","c","h","n","o","l","o","g","y">>>>,
      <<<<"b",".","t","e","c","h",".">>,
        <<"B","a","c","h","e","l","o","r"," ","o","f"," ","T","e","c","h","n","o","l","o","g","y">>>>,
      <<<<"b","b","a">>,
        <<"B","a","c","h","e","l","o","r"," ","o","f"," ","B","u","s","i","n","e","s","s"," ","A","d","m","i","n","i","s","t","r","a","t","i","o","n">>>>,
      <<<<"b",".","b",".","a",".">>,
        <<"B","a","c","h","e","l","o","r"," ","o","f"," ","B","u","s","i","n","e","s","s"," ","A","d","m","i","n","i","s","t","r","a","t","i","o","n">>>>,
      <<<<"b","c","s">>,
        <<"B","a","c","h","e","l","o","r"," ","o","f"," ","C","o","m","p","u","t","e","r"," ","S","c","i","e","n","c","e">>>>,
      <<<<"b","s","c","s">>,
        <<"B","a","c","h","e","l","o","r"," ","o","f"," ","C","o","m","p","u","t","e","r"," ","S","c","i","e","n","c","e">>>>,
      <<<<"m","s">>,
        <<"M","a","s","t","e","r"," ","o","f"," ","S","c","i","e","n","c","e">>>>,
      <<<<"m",".","s",".">>,
        <<"M","a","s","t","e","r"," ","o","f"," ","S","c","i","e","n","c","e">>>>,
      <<<<"m",".","s">>,
        <<"M","a","s","t","e","r"," ","o","f"," ","S","c","i","e","n","c","e">>>>,
      <<<<"m","a">>,
        <<"M","a","s","t","e","r"," ","o","f"," ","A","r","t","s">>>>,
      <<<<"m",".","a",".">>,
        <<"M","a","s","t","e","r"," ","o","f"," ","A","r","t","s">>>>,
      <<<<"m",".","a">>,
        <<"M","a","s","t","e","r"," ","o","f"," ","A","r","t","s">>>>,
      <<<<"m","e">>,
        <<"M","a","s","t","e","r"," ","o","f"," ","E","n","g","i","n","e","e","r","i","n","g">>>>,
      <<<<"m",".","e",".">>,
        <<"M","a","s","t","e","r"," ","o","f"," ","E","n","g","i","n","e","e","r","i","n","g">>>>,
      <<<<"m",".","e">>,
        <<"M","a","s","t","e","r"," ","o","f"," ","E","n","g","i","n","e","e","r","i","n","g">>>>,
      <<<<"m","t","e","c","h">>,
        <<"M","a","s","t","e","r"," ","o","f"," ","T","e","c","h","n","o","l","o","g","y">>>>,
      <<<<"m",".","t","e","c","h">>,
        <<"M","a","s","t","e","r"," ","o","f"," ","T","e","c","h","n","o","l","o","g","y">>>>,
      <<<<"m",".","t","e","c","h",".">>,
        <<"M","a","s","t","e","r"," ","o","f"," ","T","e","c","h","n","o","l","o","g","y">>>>,
      <<<<"m","b","a">>,
        <<"M","a","s","t","e","r"," ","o","f"," ","B","u","s","i","n","e","s","s"," ","A","d","m","i","n","i","s","t","r","a","t","i","o","n">>>>,
      <<<<"m",".","b",".","a",".">>,
        <<"M","a","s","t","e","r"," ","o","f"," ","B","u","s","i","n","e","s","s"," ","A","d","m","i","n","i","s","t","r","a","t","i","o","n">>>>,
      <<<<"m",".","b",".","a">>,
        <<"M","a","s","t","e","r"," ","o","f"," ","B","u","s","i","n","e","s","s"," ","A","d","m","i","n","i","s","t","r","a","t","i","o","n">>>>,
      <<<<"m","c","s">>,
        <<"M","a","s","t","e","r"," ","o","f"," ","C","o","m","p","u","t","e","r"," ","S","c","i","e","n","c","e">>>>,
      <<<<"m","s","c","s">>,
        <<"M","a","s","t","e","r"," ","o","f"," ","C","o","m","p","u","t","e","r"," ","S","c","i","e","n","c","e">>>>,
      <<<<"p","h","d">>,
        <<"P","h","D">>>>,
      <<<<"p","h",".","d",".">>,
        <<"P","h","D">>>>,
      <<<<"p","h",".","d">>,
        <<"P","h","D">>>>,
      <<<<"d",".","p","h","i","l">>,
        <<"P","h","D">>>>,
      <<<<"d","p","h","i","l">>,
        <<"P","h","D">>>>,
      <<<<"m","d">>,
        <<"D","o","c","t","o","r"," ","o","f"," ","M","e","d","i","c","i","n","e">>>>,
      <<<<"m",".","d",".">>,
        <<"D","o","c","t","o","r"," ","o","f"," ","M","e","d","i","c","i","n","e">>>>,
      <<<<"j","d">>,
        <<"D","o","c","t","o","r"," ","o","f"," ","L","a","w">>>>,
      <<<<"j",".","d",".">>,
        <<"D","o","c","t","o","r"," ","o","f"," ","L","a","w">>>>,
      <<<<"e","d","d">>,
        <<"D","o","c","t","o","r"," ","o","f"," ","E","d","u","c","a","t","i","o","n">>>>,
      <<<<"e","d",".","d",".">>,
        <<"D","o","c","t","o","r"," ","o","f"," ","E","d","u","c","a","t","i","o","n">>>>,
      <<<<"d","b","a">>,
        <<"D","o","c","t","o","r"," ","o","f"," ","B","u","s","i","n","e","s","s"," ","A","d","m","i","n","i","s","t","r","a","t","i","o","n">>>>,
      <<<<"d",".","b",".","a",".">>,
        <<"D","o","c","t","o","r"," ","o","f"," ","B","u","s","i","n","e","s","s"," ","A","d","m","i","n","i","s","t","r","a","t","i","o","n">>>>,
      <<<<"a","s">>,
        <<"A","s","s","o","c","i","a","t","e"," ","o","f"," ","S","c","i","e","n","c","e">>>>,
      <<<<"a",".","s",".">>,
        <<"A","s","s","o","c","i","a","t","e"," ","o","f"," ","S","c","i","e","n","c","e">>>>,
      <<<<"a","a">>,
        <<"A","s","s","o","c","i","a","t","e"," ","o","f"," ","A","r","t","s">>>>,
      <<<<"a",".","a",".">>,
        <<"A","s","s","o","c","i","a","t","e"," ","o","f"," ","A","r","t","s">>>>,
      <<<<"a","a","s">>,
        <<"A","s","s","o","c","i","a","t","e"," ","o","f"," ","A","p","p","l","i","e","d"," ","S","c","i","e","n","c","e">>>>,
      <<<<"a",".","a",".","s",".">>,
        <<"A","s","s","o","c","i","a","t","e"," ","o","f"," ","A","p","p","l","i","e","d"," ","S","c","i","e","n","c","e">>>>
    >>

\* the profiles that have skill priorities, and the priorities
ROLE_SKILL_PRIORITIES ==
    "software_engineer" :>
      [high |->
        <<<<"P","y","t","h","o","n">>,
          <<"J","a","v","a">>,
          <<"J","a","v","a","S","c","r","i","p","t">>,
          <<"C","+","+">>,
          <<"S","Q","L">>,
          <<"G","i","t">>,
          <<"R","E","S","T"," ","A","P","I">>,
          <<"M","i","c","r","o","s","e","r","v","i","c","e","s">>>>,
       medium |->
        <<<<"D","o","c","k","e","r">>,
          <<"K","u","b","e","r","n","e","t","e","s">>,
          <<"A","W","S">>,
          <<"C","I","/","C","D">>,
          <<"A","g","i","l","e">>,
          <<"S","c","r","u","m">>>>]
    @@
    "data_scientist" :>
      [high |->
        <<<<"P","y","t","h","o","n">>,
          <<"R">>,
          <<"S","Q","L">>,
          <<"M","a","c","h","i","n","e"," ","L","e","a","r","n","i","n","g">>,
          <<"D","a","t","a"," ","S","c","i","e","n","c","e">>,
          <<"P","a","n","d","a","s">>,
          <<"N","u","m","P","y">>,
          <<"T","e","n","s","o","r","F","l","o","w">>,
          <<"P","y","T","o","r","c","h">>>>,
       medium |->
        <<<<"S","t","a","t","i","s","t","i","c","s">>,
          <<"N","L","P">>,
          <<"D","e","e","p"," ","L","e","a","r","n","i","n","g">>,
          <<"J","u","p","y","t","e","r">>,
          <<"T","a","b","l","e","a","u">>,
          <<"P","o","w","e","r"," ","B","I">>>>]

(***************************************************************************)
(* resume_normalizer: the raw values of an input resume.  A value carries  *)
(* its Python type, type(value).__name__.                                  *)
(***************************************************************************)
RawNone == [type |-> "NoneType"]

RawStr(s) == [type |-> "str", s |-> s]

RawInt(n) == [type |-> "int", n |-> n]

RawBool(b) == [type |-> "bool", b |-> b]

RawList(items) == [type |-> "list", items |-> items]

\* a dict: d maps its keys to raw values
RawDict(d) == [type |-> "dict", d |-> d]

\* an Optional[str] of the input as a str of the model, None for None
Plain(value) == IF value.type = "str" THEN value.s ELSE None

\* dict.get(key) on a raw dict: the plain value of the key, None when absent
RawGet(entry, key) == IF key \in DOMAIN entry.d THEN Plain(entry.d[key]) ELSE None

(***************************************************************************)
(* validate_resume_schema.  The error list is a sequence of groups of      *)
(* lines: a group is one line, or the lines of one loop over a set of item *)
(* fields, whose order the hash seed decides.                              *)
(***************************************************************************)
\* the dict literal, in its order; "optional" stands for (str, type(None))
REQUIRED_RESUME_FIELDS ==
    <<<<"name", "optional">>, <<"email", "optional">>, <<"phone", "optional">>,
      <<"education", "list">>, <<"skills", "list">>, <<"experience", "list">>,
      <<"projects", "list">>>>

EDUCATION_ITEM_FIELDS ==
    {"degree", "degree_raw", "institution", "year", "start_year", "end_year", "raw_date"}

EXPERIENCE_ITEM_FIELDS == {"title", "company", "duration", "start_year", "end_year", "raw_date"}

PROJECTS_ITEM_FIELDS == {"name", "description"}

\* "Missing required field: '{field_name}'"
MissingLine(field_name) ==
    [kind |-> "missing field", path |-> <<field_name>>, expected |-> "", got |-> ""]

\* "Field '{path}': expected {expected}, got {type(value).__name__}"
TypeLine(path, expected, value) ==
    [kind |-> "wrong type", path |-> path, expected |-> expected, got |-> value.type]

\* "Field 'skills[{i}]': missing required 'name' field"
MissingNameLine(i) ==
    [kind |-> "missing name", path |-> <<"skills", i>>, expected |-> "", got |-> ""]

\* isinstance(value, (int, float)): bool is a subclass of int
IsNumber(value) == value.type \in {"int", "float", "bool"}

\* the type check of a top-level value, without coercion
TopLevelErrors(field_name, expected, value) ==
    IF expected = "optional"
    THEN IF value.type \notin {"NoneType", "str"}
         THEN <<{TypeLine(<<field_name>>, "str or None", value)}>>
         ELSE << >>
    ELSE IF value.type # "list"
    THEN <<{TypeLine(<<field_name>>, "list", value)}>>
    ELSE << >>

\* the errors of the i-th skill (i counts from 0)
SkillErrors(i, skill) ==
    IF skill.type = "str" THEN << >>
    ELSE IF skill.type = "dict"
    THEN (IF "name" \notin DOMAIN skill.d THEN <<{MissingNameLine(i)}>>
          ELSE IF skill.d["name"].type # "str"
          THEN <<{TypeLine(<<"skills", i, "name">>, "str", skill.d["name"])}>>
          ELSE << >>)
         \o (IF "confidence" \in DOMAIN skill.d /\ ~IsNumber(skill.d["confidence"])
             THEN <<{TypeLine(<<"skills", i, "confidence">>, "number", skill.d["confidence"])}>>
             ELSE << >>)
    ELSE <<{TypeLine(<<"skills", i>>, "str or dict", skill)}>>

\* "for field in ITEM_FIELDS: if field in item: ..." the lines of one item
ItemFieldLines(field_name, i, item, item_fields) ==
    {TypeLine(<<field_name, i, field>>, "str or None", item.d[field]) :
        field \in {f \in item_fields \cap DOMAIN item.d :
                      item.d[f].type \notin {"NoneType", "str"}}}

\* the errors of the i-th entry of education, experience or projects
EntryErrors(field_name, i, item, item_fields) ==
    IF item.type # "dict" THEN <<{TypeLine(<<field_name, i>>, "dict", item)}>>
    ELSE IF ItemFieldLines(field_name, i, item, item_fields) = {} THEN << >>
    ELSE <<ItemFieldLines(field_name, i, item, item_fields)>>

ItemFieldsOf(field_name) ==
    IF field_name = "education" THEN EDUCATION_ITEM_FIELDS
    ELSE IF field_name = "experience" THEN EXPERIENCE_ITEM_FIELDS
    ELSE PROJECTS_ITEM_FIELDS

\* the errors of the k-th item of a list (k counts from 1, the line from 0)
ItemErrors(field_name, k, item) ==
    IF field_name = "skills" THEN SkillErrors(k - 1, item)
    ELSE EntryErrors(field_name, k - 1, item, ItemFieldsOf(field_name))

RECURSIVE ItemsErrorsFrom(_, _, _)

\* "for i, item in enumerate(value)", from the k-th item on
ItemsErrorsFrom(field_name, items, k) ==
    IF k > Len(items) THEN << >>
    ELSE ItemErrors(field_name, k, items[k]) \o ItemsErrorsFrom(field_name, items, k + 1)

\* "Validate list contents": only of a value that is a list
ContentErrors(field_name, value) ==
    IF field_name \in {"skills", "education", "experience", "projects"} /\ value.type = "list"
    THEN ItemsErrorsFrom(field_name, value.items, 1)
    ELSE << >>

\* the errors of one required field: a missing field is reported and the
\* loop continues with the next field
FieldErrors(data, required) ==
    IF required[1] \notin DOMAIN data THEN <<{MissingLine(required[1])}>>
    ELSE TopLevelErrors(required[1], required[2], data[required[1]])
         \o ContentErrors(required[1], data[required[1]])

RECURSIVE FieldsErrorsFirstOnly(_, _)

\* a variant of the loop that stops at the first field with an error and
\* reports its first line only
FieldsErrorsFirstOnly(data, k) ==
    IF k > Len(REQUIRED_RESUME_FIELDS) THEN << >>
    ELSE IF FieldErrors(data, REQUIRED_RESUME_FIELDS[k]) # << >>
    THEN <<Head(FieldErrors(data, REQUIRED_RESUME_FIELDS[k]))>>
    ELSE FieldsErrorsFirstOnly(data, k + 1)

RECURSIVE FieldsErrorsFrom(_, _)

\* "for field_name in REQUIRED_RESUME_FIELDS", from the k-th field on
FieldsErrorsFrom(data, k) ==
    IF k > Len(REQUIRED_RESUME_FIELDS) THEN << >>
    ELSE FieldErrors(data, REQUIRED_RESUME_FIELDS[k]) \o FieldsErrorsFrom(data, k + 1)

\* a raised ResumeValidationError: of a non-dict, or with the itemized lines
NotADictionary(value) == [outcome |-> "ResumeValidationError", itemized |-> FALSE, got |-> value.type]

ValidationFailed(errors) == [outcome |-> "ResumeValidationError", itemized |-> TRUE, errors |-> errors]

Validated == [outcome |-> "valid"]

\* what validate_resume_schema does with the errors it collected
RaiseIfErrors(errors) == IF errors # << >> THEN ValidationFailed(errors) ELSE Validated

validate_resume_schema(raw_resume_data) ==
    IF raw_resume_data.type # "dict" THEN NotADictionary(raw_resume_data)
    ELSE RaiseIfErrors(FieldsErrorsFrom(raw_resume_data.d, 1))

(***************************************************************************)
(* The str and re operations the normalizer uses, on ASCII text.           *)
(***************************************************************************)
\* the items as a list that is built once
AsList(items) == SubSeq(items, 1, Len(items))

UpperChar(c) ==
    IF c \in Range(LowerChars)
    THEN UpperChars[CHOOSE i \in DOMAIN LowerChars : LowerChars[i] = c]
    ELSE c

IsCased(c) == c \in Range(UpperChars) \cup Range(LowerChars)

\* str.title(): a letter after a letter is lowered, any other letter raised
str_title(s) ==
    [i \in 1..Len(s) |-> IF i > 1 /\ IsCased(s[i - 1]) THEN LowerChar(s[i]) ELSE UpperChar(s[i])]

\* str.capitalize(): the first character raised, the others lowered
str_capitalize(s) == [i \in 1..Len(s) |-> IF i = 1 THEN UpperChar(s[i]) ELSE LowerChar(s[i])]

\* str.isdigit() of ASCII text
str_isdigit(s) == s # << >> /\ \A i \in DOMAIN s : s[i] \in Range(DigitChars)

\* re.sub(r'[^\d]', '', s)
DigitsOf(s) == SelectSeq(s, LAMBDA c : c \in Range(DigitChars))

RECURSIVE Runs(_, _, _)

\* the non-empty pieces of re.split on runs of separators, from index i on
Runs(text, i, separators) ==
    IF i > Len(text) THEN << >>
    ELSE IF text[i] \in separators THEN Runs(text, i + 1, separators)
    ELSE LET stops == {k \in i..Len(text) : text[k] \in separators}
             stop  == IF stops = {} THEN Len(text) + 1 ELSE Min(stops)
         IN  <<SubSeq(text, i, stop - 1)>> \o Runs(text, stop, separators)

\* the literal matches at index i, letters compared as ignore_case says
LiteralAt(text, i, literal, ignore_case) ==
    /\ i + Len(literal) - 1 <= Len(text)
    /\ \A k \in 1..Len(literal) :
          IF ignore_case THEN LowerChar(text[i + k - 1]) = LowerChar(literal[k])
          ELSE text[i + k - 1] = literal[k]

\* \b at the gap before index i (1..Len+1): a word character on exactly one side
BoundaryBefore(text, i) ==
    (i > 1 /\ IsWordChar(text[i - 1])) # (i <= Len(text) /\ IsWordChar(text[i]))

\* r'\b' + re.escape(literal) + r'\b' matches at index i
WordAt(text, i, literal, ignore_case) ==
    /\ LiteralAt(text, i, literal, ignore_case)
    /\ BoundaryBefore(text, i)
    /\ BoundaryBefore(text, i + Len(literal))

RECURSIVE ReSubWordFrom(_, _, _, _, _)

\* re.sub of the pattern \bliteral\b by the replacement, from index i on:
\* the matches from left to right, none overlapping another
ReSubWordFrom(text, i, literal, replacement, ignore_case) ==
    IF i > Len(text) THEN << >>
    ELSE IF WordAt(text, i, literal, ignore_case)
    THEN replacement \o ReSubWordFrom(text, i + Len(literal), literal, replacement, ignore_case)
    ELSE <<text[i]>> \o ReSubWordFrom(text, i + 1, literal, replacement, ignore_case)

RECURSIVE ReSubEach(_, _, _, _)

\* "for abbrev, full in abbrev_map.items(): normalized = re.sub(...)"
ReSubEach(text, abbrev_map, k, ignore_case) ==
    IF k > Len(abbrev_map) THEN text
    ELSE ReSubEach(ReSubWordFrom(text, 1, abbrev_map[k][1], abbrev_map[k][2], ignore_case),
                   abbrev_map, k + 1, ignore_case)

(***************************************************************************)
(* Name, email and phone.                                                  *)
(***************************************************************************)
\* one part of a name: "Mc" and "O'" keep a capital after the prefix
NamePart(part) ==
    IF Len(part) > 2 /\ (StartsWith(str_lower(part), <<"m","c">>)
                         \/ StartsWith(str_lower(part), <<"o","'">>))
    THEN str_capitalize(SubSeq(part, 1, 2)) \o str_capitalize(SubSeq(part, 3, Len(part)))
    ELSE str_capitalize(part)

NameParts(parts) == [k \in DOMAIN parts |-> NamePart(parts[k])]

_normalize_name(name) ==
    IF ~Truthy(name) THEN None
    ELSE Join(NameParts(Runs(str_strip(name), 1, Whitespace \cup {"-"})))

_normalize_email(email) == IF ~Truthy(email) THEN None ELSE str_lower(str_strip(email))

\* the two formats of a phone number, of its digits
PhoneFormat(phone, digits) ==
    IF Len(digits) = 10
    THEN <<"(">> \o SubSeq(digits, 1, 3) \o <<")", " ">> \o SubSeq(digits, 4, 6) \o <<"-">>
         \o SubSeq(digits, 7, 10)
    ELSE IF Len(digits) = 11 /\ digits[1] = "1"
    THEN <<"+", "1", " ", "(">> \o SubSeq(digits, 2, 4) \o <<")", " ">> \o SubSeq(digits, 5, 7)
         \o <<"-">> \o SubSeq(digits, 8, 11)
    ELSE str_strip(phone)

_normalize_phone(phone) == IF ~Truthy(phone) THEN None ELSE PhoneFormat(phone, DigitsOf(phone))

(***************************************************************************)
(* Years, institutions, job titles, companies, projects.                   *)
(***************************************************************************)
\* "if not year_str.isdigit() or len(year_str) != 4: return None", then the
\* range 1900..2100
ValidYearText(year_str) ==
    IF str_isdigit(year_str) /\ Len(year_str) = 4
       /\ 1900 <= DecimalValue(year_str, 0) /\ DecimalValue(year_str, 0) <= 2100
    THEN year_str
    ELSE None

_validate_year(year) == IF ~Truthy(year) THEN None ELSE ValidYearText(str_strip(year))

InstitutionAbbreviations ==
    <<<<<<"u","n","i","v">>, <<"U","n","i","v","e","r","s","i","t","y">>>>,
      <<<<"u","n","i","v",".">>, <<"U","n","i","v","e","r","s","i","t","y">>>>,
      <<<<"u",".">>, <<"U","n","i","v","e","r","s","i","t","y">>>>,
      <<<<"u"," ">>, <<"U","n","i","v","e","r","s","i","t","y"," ">>>>,
      <<<<"c","o","l">>, <<"C","o","l","l","e","g","e">>>>,
      <<<<"c","o","l",".">>, <<"C","o","l","l","e","g","e">>>>,
      <<<<"i","n","s","t">>, <<"I","n","s","t","i","t","u","t","e">>>>,
      <<<<"i","n","s","t",".">>, <<"I","n","s","t","i","t","u","t","e">>>>>>

_normalize_institution(institution) ==
    IF ~Truthy(institution) THEN None
    ELSE str_title(ReSubEach(str_strip(institution), InstitutionAbbreviations, 1, TRUE))

TitleAbbreviations ==
    <<<<<<"S","r",".">>, <<"S","e","n","i","o","r">>>>,
      <<<<"J","r",".">>, <<"J","u","n","i","o","r">>>>,
      <<<<"E","n","g",".">>, <<"E","n","g","i","n","e","e","r">>>>,
      <<<<"M","g","r",".">>, <<"M","a","n","a","g","e","r">>>>,
      <<<<"D","e","v",".">>, <<"D","e","v","e","l","o","p","e","r">>>>,
      <<<<"D","i","r",".">>, <<"D","i","r","e","c","t","o","r">>>>>>

_normalize_job_title(title) ==
    IF ~Truthy(title) THEN None
    ELSE ReSubEach(str_title(str_strip(title)), TitleAbbreviations, 1, FALSE)

CompanySuffixes ==
    <<<<<<"i","n","c">>, <<"I","n","c",".">>>>,
      <<<<"i","n","c",".">>, <<"I","n","c",".">>>>,
      <<<<"l","l","c">>, <<"L","L","C">>>>,
      <<<<"c","o","r","p">>, <<"C","o","r","p",".">>>>,
      <<<<"c","o","r","p",".">>, <<"C","o","r","p",".">>>>,
      <<<<"l","t","d">>, <<"L","t","d",".">>>>,
      <<<<"l","t","d",".">>, <<"L","t","d",".">>>>>>

\* normalized.rsplit(' ', 1)[0]: the text before the last space
BeforeLastSpace(text) == SubSeq(text, 1, Max({k \in DOMAIN text : text[k] = " "}) - 1)

RECURSIVE CompanySuffixFrom(_, _)

\* the first suffix the name ends with, with or without a final dot,
\* replaces the last word
CompanySuffixFrom(text, k) ==
    IF k > Len(CompanySuffixes) THEN text
    ELSE IF \/ EndsWith(str_lower(text), <<" ">> \o CompanySuffixes[k][1])
            \/ EndsWith(str_lower(text), <<" ">> \o CompanySuffixes[k][1] \o <<".">>)
    THEN BeforeLastSpace(text) \o <<" ">> \o CompanySuffixes[k][2]
    ELSE CompanySuffixFrom(text, k + 1)

_normalize_company(company) ==
    IF ~Truthy(company) THEN None
    ELSE str_title(CompanySuffixFrom(str_strip(company), 1))

\* one project: the name in title case, the description stripped
NormalizedProject(project) ==
    [name |-> IF Truthy(RawGet(project, "name"))
              THEN str_title(str_strip(RawGet(project, "name"))) ELSE None,
     description |-> IF Truthy(RawGet(project, "description"))
                     THEN str_strip(RawGet(project, "description")) ELSE None]

_normalize_projects(projects) ==
    AsList([k \in DOMAIN projects |-> NormalizedProject(projects[k])])

(***************************************************************************)
(* Order of strings and sorting.                                           *)
(***************************************************************************)
\* the ASCII characters of the model in code point order (the double quote,
\* the backslash and the backquote are not used)
CodePointOrder ==
    <<
      "\t", "\n", " ", "!", "#", "$", "%", "&", "'", "(", ")", "*", "+", ",", "-",
      ".", "/", "0", "1", "2", "3", "4", "5", "6", "7", "8", "9", ":", ";", "<", "=",
      ">", "?", "@", "A", "B", "C", "D", "E", "F", "G", "H", "I", "J", "K", "L", "M",
      "N", "O", "P", "Q", "R", "S", "T", "U", "V", "W", "X", "Y", "Z", "[", "]",
      "^", "_", "a", "b", "c", "d", "e", "f", "g", "h", "i", "j", "k", "l", "m",
      "n", "o", "p", "q", "r", "s", "t", "u", "v", "w", "x", "y", "z", "{", "|", "}",
      "~"
    >>

CodePoint(c) == CHOOSE i \in DOMAIN CodePointOrder : CodePointOrder[i] = c

RECURSIVE StrLess(_, _)

\* a < b of two str: the first differing character decides, a proper prefix
\* is smaller
StrLess(a, b) ==
    IF b = << >> THEN FALSE
    ELSE IF a = << >> THEN TRUE
    ELSE IF Head(a) # Head(b) THEN CodePoint(Head(a)) < CodePoint(Head(b))
    ELSE StrLess(Tail(a), Tail(b))

\* the place of the k-th item after a stable sort: after the items that
\* precede it and after the earlier items of equal key
PlaceOf(items, k, Precedes(_, _)) ==
    1 + Cardinality({j \in DOMAIN items :
                        \/ Precedes(items[j], items[k])
                        \/ ~Precedes(items[k], items[j]) /\ j < k})

\* list.sort: stable, in the order Precedes gives (key ascending, or key
\* descending for reverse=True)
Sorted(items, Precedes(_, _)) ==
    AsList([place \in DOMAIN items |->
               items[CHOOSE k \in DOMAIN items : PlaceOf(items, k, Precedes) = place]])

(***************************************************************************)
(* Degrees and education.                                                  *)
(***************************************************************************)
RECURSIVE TableIndexFrom(_, _, _)

TableIndexFrom(table, key, k) ==
    IF k > Len(table) THEN 0
    ELSE IF table[k][1] = key THEN k
    ELSE TableIndexFrom(table, key, k + 1)

\* the place of a key in a table of pairs, 0 when the table lacks it
TableIndex(table, key) == TableIndexFrom(table, key, 1)

\* the canonical form at a place of a table
CanonicalAt(table, k) == table[k][2]

NoDegree == [isNone |-> TRUE]

DegreeResult(canonical, raw_degree) == [canonical |-> canonical, raw |-> raw_degree]

RECURSIVE WordRunEnd(_, _)

\* the last index of the run of word characters that holds index g
WordRunEnd(text, g) ==
    IF g < Len(text) /\ IsWordChar(text[g + 1]) THEN WordRunEnd(text, g + 1) ELSE g

RECURSIVE WordsEnd(_, _)

\* the last index of \w+(?:\s+\w+)* matched from index g
WordsEnd(text, g) ==
    IF /\ SkipWs(text, WordRunEnd(text, g) + 1) > WordRunEnd(text, g) + 1
       /\ SkipWs(text, WordRunEnd(text, g) + 1) <= Len(text)
       /\ IsWordChar(text[SkipWs(text, WordRunEnd(text, g) + 1)])
    THEN WordsEnd(text, SkipWs(text, WordRunEnd(text, g) + 1))
    ELSE WordRunEnd(text, g)

\* the indices where r'in\s+(\w+(?:\s+\w+)*)' matches
MajorMatches(text) ==
    {i \in 1..(Len(text) - 3) :
        /\ text[i] = "i" /\ text[i + 1] = "n" /\ text[i + 2] \in Whitespace
        /\ SkipWs(text, i + 2) <= Len(text)
        /\ IsWordChar(text[SkipWs(text, i + 2)])}

\* group 1 of the leftmost match
MajorGroup(text, i) == SubSeq(text, SkipWs(text, i + 2), WordsEnd(text, SkipWs(text, i + 2)))

\* the canonical form, with " in <Major>" when the degree names one
WithMajor(canonical, degree_lower, raw_degree) ==
    IF MajorMatches(degree_lower) # {}
    THEN DegreeResult(canonical \o <<" ", "i", "n", " ">>
                          \o str_title(MajorGroup(degree_lower, Min(MajorMatches(degree_lower)))),
                      raw_degree)
    ELSE DegreeResult(canonical, raw_degree)

RECURSIVE EscapedAbbreviation(_)

\* re.escape(abbrev.replace('.', r'\.?')): the dot becomes the three literal
\* characters backslash, dot, question mark
EscapedAbbreviation(abbrev) ==
    IF abbrev = << >> THEN << >>
    ELSE (IF Head(abbrev) = "." THEN <<"\\", ".", "?">> ELSE <<Head(abbrev)>>)
         \o EscapedAbbreviation(Tail(abbrev))

\* re.search(r'\b' + ... + r'\b', degree_lower)
AbbreviationFound(abbrev, degree_lower) ==
    \E i \in DOMAIN degree_lower : WordAt(degree_lower, i, EscapedAbbreviation(abbrev), FALSE)

RECURSIVE AbbreviationMatch(_, _, _)

\* "for abbrev, canonical in DEGREE_ABBREVIATIONS.items()", from the k-th on:
\* the first abbreviation that occurs as a word, else the degree in title
\* case
AbbreviationMatch(degree_lower, raw_degree, k) ==
    IF k > Len(DEGREE_ABBREVIATIONS) THEN DegreeResult(str_title(raw_degree), raw_degree)
    ELSE IF AbbreviationFound(DEGREE_ABBREVIATIONS[k][1], degree_lower)
    THEN WithMajor(DEGREE_ABBREVIATIONS[k][2], degree_lower, raw_degree)
    ELSE AbbreviationMatch(degree_lower, raw_degree, k + 1)

RECURSIVE TaxonomyMatch(_, _, _)

\* "for taxonomy_key, canonical in DEGREE_TAXONOMY.items()", from the k-th
\* on: the first taxonomy key the degree contains
TaxonomyMatch(degree_lower, raw_degree, k) ==
    IF k > Len(DEGREE_TAXONOMY) THEN AbbreviationMatch(degree_lower, raw_degree, 1)
    ELSE IF Contains(degree_lower, DEGREE_TAXONOMY[k][1])
    THEN WithMajor(DEGREE_TAXONOMY[k][2], degree_lower, raw_degree)
    ELSE TaxonomyMatch(degree_lower, raw_degree, k + 1)

\* the exact matches: the taxonomy, then the abbreviations
ExactDegree(in_taxonomy, in_abbreviations, degree_lower, raw_degree) ==
    IF in_taxonomy # 0 THEN DegreeResult(CanonicalAt(DEGREE_TAXONOMY, in_taxonomy), raw_degree)
    ELSE IF in_abbreviations # 0
    THEN DegreeResult(CanonicalAt(DEGREE_ABBREVIATIONS, in_abbreviations), raw_degree)
    ELSE TaxonomyMatch(degree_lower, raw_degree, 1)

DegreeOfStripped(degree_lower, raw_degree) ==
    ExactDegree(TableIndex(DEGREE_TAXONOMY, degree_lower),
                TableIndex(DEGREE_ABBREVIATIONS, degree_lower), degree_lower, raw_degree)

_normalize_degree(degree) ==
    IF ~Truthy(degree) THEN NoDegree
    ELSE DegreeOfStripped(str_lower(str_strip(degree)), str_strip(degree))

\* "degree_result['canonical'] if degree_result else None"
CanonicalOf(degree_result) ==
    IF degree_result # NoDegree THEN degree_result.canonical ELSE None

\* one education entry, normalized
NormalizedEducationEntry(entry) ==
    [degree |-> CanonicalOf(_normalize_degree(RawGet(entry, "degree"))),
     degree_raw |-> RawGet(entry, "degree"),
     institution |-> _normalize_institution(RawGet(entry, "institution")),
     start_year |-> _validate_year(RawGet(entry, "start_year")),
     end_year |-> _validate_year(RawGet(entry, "end_year")),
     raw_date |-> RawGet(entry, "raw_date"),
     year |-> RawGet(entry, "year")]

\* "int(x) if x and x.isdigit() else default"
YearKey(year, default) ==
    IF Truthy(year) /\ str_isdigit(year) THEN DecimalValue(year, 0) ELSE default

\* the sort key of an education entry: the end year, 0 without one
EducationKey(x) == YearKey(x.end_year, 0)

\* reverse=True: the larger key first
EducationPrecedes(x, y) == EducationKey(x) > EducationKey(y)

_normalize_education(education) ==
    Sorted(AsList([k \in DOMAIN education |-> NormalizedEducationEntry(education[k])]),
           EducationPrecedes)

(***************************************************************************)
(* Experience.                                                             *)
(***************************************************************************)
\* one experience entry, normalized: six keys, the years as given
NormalizedExperienceEntry(entry) ==
    [title |-> _normalize_job_title(RawGet(entry, "title")),
     company |-> _normalize_company(RawGet(entry, "company")),
     start_year |-> RawGet(entry, "start_year"),
     end_year |-> RawGet(entry, "end_year"),
     raw_date |-> RawGet(entry, "raw_date"),
     duration |-> RawGet(entry, "duration")]

\* the sort key of an experience entry: the end year, 9999 without one,
\* then the start year, 0 without one
ExperienceKey(x) == <<YearKey(x.end_year, 9999), YearKey(x.start_year, 0)>>

\* a > b of two tuples of two int
PairGreater(a, b) == a[1] > b[1] \/ (a[1] = b[1] /\ a[2] > b[2])

\* reverse=True: the larger key first
ExperiencePrecedes(x, y) == PairGreater(ExperienceKey(x), ExperienceKey(y))

_normalize_experience(experience) ==
    Sorted(AsList([k \in DOMAIN experience |-> NormalizedExperienceEntry(experience[k])]),
           ExperiencePrecedes)

(***************************************************************************)
(* Skills.  A confidence is a number of hundredths, <<n, 100>>.            *)
(***************************************************************************)
\* 0.9 for skills of an explicit section, 0.6 for inferred ones
BaseConfidence(skills_from_explicit_section) == IF skills_from_explicit_section THEN 90 ELSE 60

\* key in skill_lower or skill_lower in key
PartialSkill(k, skill_lower) ==
    \/ Contains(skill_lower, ATS_SKILL_MAPPINGS[k][1])
    \/ Contains(ATS_SKILL_MAPPINGS[k][1], skill_lower)

RECURSIVE PartialSkillFrom(_, _, _, _)

\* "for key, value in ATS_SKILL_MAPPINGS.items()", from the k-th on: the
\* first partial match, else the skill in title case
PartialSkillFrom(skill, skill_lower, base_confidence, k) ==
    IF k > Len(ATS_SKILL_MAPPINGS)
    THEN [canonical |-> str_title(str_strip(skill)),
          confidence |-> Max({30, base_confidence - 20})]
    ELSE IF PartialSkill(k, skill_lower)
    THEN [canonical |-> ATS_SKILL_MAPPINGS[k][2],
          confidence |-> Max({50, base_confidence - 10})]
    ELSE PartialSkillFrom(skill, skill_lower, base_confidence, k + 1)

\* an exact match, at a place of the table, raises the confidence
SkillAt(in_mappings, skill, skill_lower, base_confidence) ==
    IF in_mappings # 0
    THEN [canonical |-> CanonicalAt(ATS_SKILL_MAPPINGS, in_mappings),
          confidence |-> Min({100, base_confidence + 5})]
    ELSE PartialSkillFrom(skill, skill_lower, base_confidence, 1)

\* the canonical form of one skill and its confidence: exact, partial,
\* unmapped
CanonicalSkill(skill, skill_lower, base_confidence) ==
    SkillAt(TableIndex(ATS_SKILL_MAPPINGS, skill_lower), skill, skill_lower, base_confidence)

\* the element appended for a skill: the str, or the object with name,
\* confidence and source
SkillItem(mapped, as_strings, skills_from_explicit_section) ==
    IF as_strings THEN mapped.canonical
    ELSE [name |-> mapped.canonical,
          confidence |-> <<mapped.confidence, 100>>,
          source |-> IF skills_from_explicit_section THEN "explicit_section" ELSE "inferred"]

RECURSIVE FirstPass(_, _, _, _, _, _)

\* a variant that appends every skill, seen or not
KeptDuplicates(skills, k, seen, normalized_skills, as_strings, skills_from_explicit_section, mapped) ==
    FirstPass(skills, k + 1, seen,
              Append(normalized_skills, SkillItem(mapped, as_strings, skills_from_explicit_section)),
              as_strings, skills_from_explicit_section)

\* "if canonical.lower() not in seen": the skill is appended and seen
Deduplicated(skills, k, seen, normalized_skills, as_strings, skills_from_explicit_section, mapped) ==
    IF AsList(str_lower(mapped.canonical)) \in seen
    THEN FirstPass(skills, k + 1, seen, normalized_skills, as_strings,
                   skills_from_explicit_section)
    ELSE FirstPass(skills, k + 1, seen \cup {AsList(str_lower(mapped.canonical))},
                   Append(normalized_skills,
                          SkillItem(mapped, as_strings, skills_from_explicit_section)),
                   as_strings, skills_from_explicit_section)

\* "for skill in skills": map, skip the canonical forms already seen
FirstPass(skills, k, seen, normalized_skills, as_strings, skills_from_explicit_section) ==
    IF k > Len(skills) THEN normalized_skills
    ELSE Deduplicated(skills, k, seen, normalized_skills, as_strings,
                      skills_from_explicit_section,
                      CanonicalSkill(skills[k], str_strip(str_lower(skills[k])),
                                     BaseConfidence(skills_from_explicit_section)))

LowerAll(names) == {str_lower(names[k]) : k \in DOMAIN names}

\* 0 for a high priority skill of the profile, 1 for a medium one, else 2
Priority(name, role_profile) ==
    IF str_lower(name) \in LowerAll(ROLE_SKILL_PRIORITIES[role_profile].high) THEN 0
    ELSE IF str_lower(name) \in LowerAll(ROLE_SKILL_PRIORITIES[role_profile].medium) THEN 1
    ELSE 2

\* the key (priority, s.lower()) of a str
StringPrecedes(a, b, role_profile) ==
    \/ Priority(a, role_profile) < Priority(b, role_profile)
    \/ /\ Priority(a, role_profile) = Priority(b, role_profile)
       /\ StrLess(str_lower(a), str_lower(b))

\* the key (priority, -confidence, name.lower()) of an object
ObjectPrecedes(a, b, role_profile) ==
    \/ Priority(a.name, role_profile) < Priority(b.name, role_profile)
    \/ /\ Priority(a.name, role_profile) = Priority(b.name, role_profile)
       /\ \/ a.confidence[1] > b.confidence[1]
          \/ /\ a.confidence[1] = b.confidence[1]
             /\ StrLess(str_lower(a.name), str_lower(b.name))

\* the second pass: the profiles with priorities sort, the others keep the
\* order of the first pass
SecondPass(normalized_skills, role_profile, as_strings) ==
    IF role_profile # "default" /\ role_profile \in DOMAIN ROLE_SKILL_PRIORITIES
    THEN IF as_strings
         THEN Sorted(normalized_skills, LAMBDA a, b : StringPrecedes(a, b, role_profile))
         ELSE Sorted(normalized_skills, LAMBDA a, b : ObjectPrecedes(a, b, role_profile))
    ELSE normalized_skills

\* skills: a list of str
_normalize_skills(self, skills, skills_from_explicit_section) ==
    IF skills = << >> THEN << >>
    ELSE SecondPass(FirstPass(skills, 1, {}, << >>, self.skills_as_strings,
                              skills_from_explicit_section),
                    self.role_profile, self.skills_as_strings)

(***************************************************************************)
(* The wrappers that normalize a field and explain the transformation.     *)
(* Each gives [value, explanation].                                        *)
(***************************************************************************)
NullExplanation ==
    [source |-> "raw", value |-> None, transformation |-> "none", rule_applied |-> "null_value"]

EmptyListExplanation ==
    [source |-> "raw", value |-> << >>, transformation |-> "none", rule_applied |-> "empty_list"]

Explain(value, explanation) == [value |-> value, explanation |-> explanation]

NameExplained(original, normalized) ==
    Explain(normalized,
            [source |-> "raw", value |-> original, transformed_value |-> normalized,
             transformation |-> "title_case_with_special_handling",
             rules_applied |-> <<"strip_whitespace", "split_by_hyphens_and_spaces",
                                 "capitalize_parts", "handle_special_prefixes_mc_o">>,
             changed |-> original # normalized])

_normalize_name_with_explanation(name) ==
    IF ~Truthy(name) THEN Explain(None, NullExplanation)
    ELSE NameExplained(name, _normalize_name(name))

EmailExplained(original, normalized) ==
    Explain(normalized,
            [source |-> "raw", value |-> original, transformed_value |-> normalized,
             transformation |-> "lowercase",
             rules_applied |-> <<"strip_whitespace", "to_lowercase">>,
             changed |-> original # normalized])

_normalize_email_with_explanation(email) ==
    IF ~Truthy(email) THEN Explain(None, NullExplanation)
    ELSE EmailExplained(email, _normalize_email(email))

PhoneExplained(original, normalized) ==
    Explain(normalized,
            [source |-> "raw", value |-> original, transformed_value |-> normalized,
             transformation |-> "standard_format",
             rules_applied |-> <<"extract_digits", "format_to_standard">>,
             format_applied |-> IF Len(DigitsOf(normalized)) = 10
                                THEN "us_format" ELSE "international_format",
             changed |-> original # normalized])

_normalize_phone_with_explanation(phone) ==
    IF ~Truthy(phone) THEN Explain(None, NullExplanation)
    ELSE PhoneExplained(phone, _normalize_phone(phone))

\* the pairs of zip(original, normalized): the i-th input with the i-th
\* output
YearsExplanation(orig_entry, norm_entry) ==
    [start_year |-> [source |-> "raw", value |-> RawGet(orig_entry, "start_year"),
                     transformed_value |-> norm_entry.start_year,
                     validated |-> norm_entry.start_year # None],
     end_year |-> [source |-> "raw", value |-> RawGet(orig_entry, "end_year"),
                   transformed_value |-> norm_entry.end_year,
                   validated |-> norm_entry.end_year # None]]

EducationEntryExplanation(i, orig_entry, norm_entry) ==
    [index |-> i,
     degree |-> [source |-> "raw", value |-> RawGet(orig_entry, "degree"),
                 transformed_value |-> norm_entry.degree,
                 canonicalized |-> norm_entry.degree # RawGet(orig_entry, "degree"),
                 raw_preserved |-> norm_entry.degree_raw],
     institution |-> [source |-> "raw", value |-> RawGet(orig_entry, "institution"),
                      transformed_value |-> norm_entry.institution,
                      changed |-> norm_entry.institution # RawGet(orig_entry, "institution")],
     years |-> YearsExplanation(orig_entry, norm_entry)]

EducationExplanation(original, normalized) ==
    [source |-> "raw", value |-> original, transformed_value |-> normalized,
     transformation |-> "canonicalize_degrees_validate_years_sort",
     rules_applied |-> <<"canonicalize_degree_names", "preserve_raw_degree",
                         "validate_year_format", "sort_by_end_year_desc">>,
     entries |-> AsList([k \in DOMAIN original |->
                            EducationEntryExplanation(k - 1, original[k], normalized[k])]),
     sorted |-> TRUE, sort_key |-> "end_year_desc"]

EducationExplained(original, normalized) ==
    Explain(normalized, EducationExplanation(original, normalized))

_normalize_education_with_explanation(education) ==
    IF education = << >> THEN Explain(<< >>, EmptyListExplanation)
    ELSE EducationExplained(education, _normalize_education(education))

\* a normalized skill's name, of either format
SkillName(norm_skill, as_strings) == IF as_strings THEN norm_skill ELSE norm_skill.name

SkillExplanation(i, orig_skill, norm_skill, as_strings) ==
    IF as_strings
    THEN [index |-> i, source |-> "raw", value |-> orig_skill, transformed_value |-> norm_skill,
          canonicalized |-> str_lower(norm_skill) # str_lower(orig_skill)]
    ELSE [index |-> i, source |-> "raw", value |-> orig_skill,
          transformed_value |-> norm_skill.name,
          canonicalized |-> str_lower(norm_skill.name) # str_lower(orig_skill),
          confidence |-> norm_skill.confidence,
          confidence_source |-> norm_skill.source]

\* zip stops at the shorter list: the normalized one, when skills were
\* deduplicated
SkillsExplanation(self, original, normalized, skills_from_explicit_section) ==
    [source |-> IF skills_from_explicit_section THEN "explicit_section" ELSE "inferred",
     value |-> original, transformed_value |-> normalized,
     transformation |-> "canonicalize_and_prioritize",
     rules_applied |-> <<"map_to_canonical_forms", "deduplicate",
                         IF self.role_profile # "default" THEN "role_specific_prioritization"
                         ELSE "alphabetical_sort">>,
     skills |-> AsList([k \in DOMAIN normalized |->
                           SkillExplanation(k - 1, original[k], normalized[k],
                                            self.skills_as_strings)]),
     format |-> IF ~self.skills_as_strings THEN "objects_with_confidence" ELSE "strings",
     role_profile |-> self.role_profile]

SkillsExplained(self, original, normalized, skills_from_explicit_section) ==
    Explain(normalized,
            SkillsExplanation(self, original, normalized, skills_from_explicit_section))

_normalize_skills_with_explanation(self, skills, skills_from_explicit_section) ==
    IF skills = << >> THEN Explain(<< >>, EmptyListExplanation)
    ELSE SkillsExplained(self, skills,
                         _normalize_skills(self, skills, skills_from_explicit_section),
                         skills_from_explicit_section)

ExperienceEntryExplanation(i, orig_entry, norm_entry) ==
    [index |-> i,
     title |-> [source |-> "raw", value |-> RawGet(orig_entry, "title"),
                transformed_value |-> norm_entry.title,
                changed |-> norm_entry.title # RawGet(orig_entry, "title")],
     company |-> [source |-> "raw", value |-> RawGet(orig_entry, "company"),
                  transformed_value |-> norm_entry.company,
                  changed |-> norm_entry.company # RawGet(orig_entry, "company")],
     years |-> YearsExplanation(orig_entry, norm_entry)]

ExperienceExplanation(original, normalized) ==
    [source |-> "raw", value |-> original, transformed_value |-> normalized,
     transformation |-> "normalize_titles_companies_sort",
     rules_applied |-> <<"normalize_job_titles", "normalize_company_names",
                         "sort_by_end_year_desc">>,
     entries |-> AsList([k \in DOMAIN original |->
                            ExperienceEntryExplanation(k - 1, original[k], normalized[k])]),
     sorted |-> TRUE, sort_key |-> "end_year_desc"]

ExperienceExplained(original, normalized) ==
    Explain(normalized, ExperienceExplanation(original, normalized))

_normalize_experience_with_explanation(experience) ==
    IF experience = << >> THEN Explain(<< >>, EmptyListExplanation)
    ELSE ExperienceExplained(experience, _normalize_experience(experience))

ProjectsExplained(original, normalized) ==
    Explain(normalized,
            [source |-> "raw", value |-> original, transformed_value |-> normalized,
             transformation |-> "title_case_names_trim_descriptions",
             rules_applied |-> <<"title_case_names", "trim_descriptions">>,
             entries_count |-> Len(normalized)])

_normalize_projects_with_explanation(projects) ==
    IF projects = << >> THEN Explain(<< >>, EmptyListExplanation)
    ELSE ProjectsExplained(projects, _normalize_projects(projects))

(***************************************************************************)
(* ResumeNormalizer and normalize_resume.                                  *)
(***************************************************************************)
NORMALIZATION_VERSION == "1.1.0"

\* the values of the RoleProfile members
ActiveProfiles == {"software_engineer", "data_scientist", "default"}

DeprecatedProfiles ==
    {"product_manager", "devops_engineer", "frontend_developer", "backend_developer",
     "full_stack_developer", "machine_learning_engineer"}

RoleProfile == ActiveProfiles \cup DeprecatedProfiles

NoProfile == "<None>"

\* the object __init__ leaves: a deprecated profile becomes DEFAULT and is
\* kept as _original_profile
ResumeNormalizer(role_profile, normalize_enabled, skills_as_strings, debug) ==
    [constructed |-> TRUE,
     role_profile |-> IF role_profile \notin ActiveProfiles THEN "default" ELSE role_profile,
     _original_profile |-> IF role_profile \notin ActiveProfiles THEN role_profile
                           ELSE NoProfile,
     normalize_enabled |-> normalize_enabled,
     skills_as_strings |-> skills_as_strings,
     debug |-> debug,
     _explainability |-> << >>]

\* "for param in unexpected: warnings.warn(...)": one warning per unexpected
\* keyword, in the order of a set; none for no keyword
ParameterWarnings(function, kwargs) ==
    IF kwargs = {} THEN << >>
    ELSE <<{[category |-> "UserWarning", function |-> function, parameter |-> param] :
               param \in kwargs}>>

\* normalize warns once, naming all the keywords
NormalizeWarnings(kwargs) ==
    IF kwargs = {} THEN << >>
    ELSE <<{[category |-> "UserWarning", function |-> "ResumeNormalizer.normalize",
             parameters |-> kwargs]}>>

ReturnsResult(value) == [outcome |-> "result", value |-> value]

RaisesAttributeError == [outcome |-> "AttributeError"]

\* raw_resume_data.get('_skills_metadata', {}).get('from_explicit_section', True)
SkillsFromExplicitSection(data) ==
    IF "_skills_metadata" \in DOMAIN data
       /\ "from_explicit_section" \in DOMAIN data["_skills_metadata"].d
    THEN data["_skills_metadata"].d["from_explicit_section"].b
    ELSE TRUE

\* the plain str of a list of skills that are all str
PlainSkills(items) == AsList([k \in DOMAIN items |-> items[k].s])

\* skill.lower() of a skill that is a dict raises AttributeError
SkillsRaise(items) == \E k \in DOMAIN items : items[k].type # "str"

\* the seven wrappers, in the order normalize calls them
Explained7(self, data) ==
    [name |-> _normalize_name_with_explanation(Plain(data["name"])),
     email |-> _normalize_email_with_explanation(Plain(data["email"])),
     phone |-> _normalize_phone_with_explanation(Plain(data["phone"])),
     education |-> _normalize_education_with_explanation(data["education"].items),
     skills |-> _normalize_skills_with_explanation(self, PlainSkills(data["skills"].items),
                                                   SkillsFromExplicitSection(data)),
     experience |-> _normalize_experience_with_explanation(data["experience"].items),
     projects |-> _normalize_projects_with_explanation(data["projects"].items)]

Fields7 == {"name", "email", "phone", "education", "skills", "experience", "projects"}

\* the explanations of the seven fields
ExplanationsOf(explained) ==
    [name |-> explained.name.explanation, email |-> explained.email.explanation,
     phone |-> explained.phone.explanation, education |-> explained.education.explanation,
     skills |-> explained.skills.explanation, experience |-> explained.experience.explanation,
     projects |-> explained.projects.explanation]

\* a variant of the metadata that also names the format of the skills
WithMetadataAndFormat(self, result, explained) ==
    result
    @@ [skills_format |-> IF self.skills_as_strings THEN "strings" ELSE "objects"]
    @@ (IF self._original_profile # NoProfile
        THEN [original_profile |-> self._original_profile, profile_deprecated |-> TRUE]
        ELSE << >>)
    @@ (IF self.debug
        THEN [explainability |-> ExplanationsOf(explained)]
        ELSE << >>)

\* result['original_profile'], result['profile_deprecated'] of a deprecated
\* profile, result['explainability'] when debug is set
WithMetadata(self, result, explained) ==
    result
    @@ (IF self._original_profile # NoProfile
        THEN [original_profile |-> self._original_profile, profile_deprecated |-> TRUE]
        ELSE << >>)
    @@ (IF self.debug
        THEN [explainability |-> ExplanationsOf(explained)]
        ELSE << >>)

NormalizedResult(self, raw_resume_data, explained) ==
    WithMetadata(self,
                 [raw |-> raw_resume_data,
                  normalized |-> [name |-> explained.name.value, email |-> explained.email.value,
                                  phone |-> explained.phone.value,
                                  education |-> explained.education.value,
                                  skills |-> explained.skills.value,
                                  experience |-> explained.experience.value,
                                  projects |-> explained.projects.value],
                  normalization_enabled |-> TRUE,
                  normalization_version |-> NORMALIZATION_VERSION,
                  role_profile |-> self.role_profile],
                 explained)

\* the raw data as both 'raw' and 'normalized'
DisabledResult(raw_resume_data) ==
    [raw |-> raw_resume_data,
     normalized |-> raw_resume_data,
     normalization_enabled |-> FALSE,
     normalization_version |-> NORMALIZATION_VERSION]

\* what follows a successful validation
AfterValidation(self, raw_resume_data) ==
    IF ~self.normalize_enabled THEN ReturnsResult(DisabledResult(raw_resume_data))
    ELSE IF SkillsRaise(raw_resume_data.d["skills"].items) THEN RaisesAttributeError
    ELSE ReturnsResult(NormalizedResult(self, raw_resume_data,
                                        Explained7(self, raw_resume_data.d)))

\* self._explainability after normalize: as it was when validation fails
\* or normalization is disabled, else reset and filled field by field, up
\* to the skills when they raise
ObjectAfterNormalize(self, raw_resume_data) ==
    IF validate_resume_schema(raw_resume_data) # Validated \/ ~self.normalize_enabled THEN self
    ELSE IF SkillsRaise(raw_resume_data.d["skills"].items)
    THEN [self EXCEPT !._explainability =
              [name |-> _normalize_name_with_explanation(
                            Plain(raw_resume_data.d["name"])).explanation,
               email |-> _normalize_email_with_explanation(
                             Plain(raw_resume_data.d["email"])).explanation,
               phone |-> _normalize_phone_with_explanation(
                             Plain(raw_resume_data.d["phone"])).explanation,
               education |-> _normalize_education_with_explanation(
                                 raw_resume_data.d["education"].items).explanation]]
    ELSE [self EXCEPT !._explainability = ExplanationsOf(Explained7(self, raw_resume_data.d))]

\* ResumeNormalizer.normalize: validation first, on every call
normalize(self, raw_resume_data) ==
    IF validate_resume_schema(raw_resume_data) # Validated
    THEN validate_resume_schema(raw_resume_data)
    ELSE AfterValidation(self, raw_resume_data)

\* normalize_resume: a normalizer built without the extra keywords
normalize_resume(raw_resume_data, role_profile, normalize_enabled, skills_as_strings, debug) ==
    normalize(ResumeNormalizer(role_profile, normalize_enabled, skills_as_strings, debug),
              raw_resume_data)

(***************************************************************************)
(* The calls the model draws.                                              *)
(***************************************************************************)
Thresholds == {<<17, 40>>, <<7, 10>>, <<17, 20>>, <<1, 1>>}

DefaultThreshold == <<7, 10>>

\* the longest list of entries a selector is given
MaxEntries == 3

\* all lists over S of at most n entries
ListsUpTo(S, n) == UNION {[1..k -> S] : k \in 0..n}

Y2018 == <<"2","0","1","8">>

Y2019 == <<"2","0","1","9">>

Y2020 == <<"2","0","2","0">>

Y2021 == <<"2","0","2","1">>

\* entries as the date strategies read them: no years, a start only, both
\* years (equal end years, equal durations, an end before the start), an end
\* only, and an end year that is no year
DatedEntries ==
    {[start_year |-> None,  end_year |-> None],
     [start_year |-> Y2018, end_year |-> None],
     [start_year |-> Y2018, end_year |-> Y2019],
     [start_year |-> Y2018, end_year |-> Y2020],
     [start_year |-> Y2019, end_year |-> Y2020],
     [start_year |-> Y2021, end_year |-> Y2020],
     [start_year |-> None,  end_year |-> Y2020],
     [start_year |-> Y2018, end_year |-> <<"a","b","c","d">>]}

DegreeEntries ==
    {[degree |-> None],
     [degree |-> <<"P","h","D">>],
     [degree |-> <<"M",".","S">>],
     [degree |-> <<"B","a","c","h","e","l","o","r"," ","o","f"," ","A","r","t","s">>],
     [degree |-> <<"D","i","p","l","o","m","a">>],
     [degree |-> <<"B","S">>],
     [degree |-> None, degree_raw |-> <<"P","h",".","D">>],
     [degree |-> << >>, degree_raw |-> None],
     [degree_raw |-> <<"M","B","A">>]}

ProjectEntries ==
    {[name |-> <<"A">>],
     [name |-> <<"B">>, description |-> None],
     [name |-> <<"C">>, description |-> << >>],
     [name |-> <<"D">>, description |-> <<"x","y">>],
     [name |-> <<"E">>, description |-> <<"x","y","z">>]}

\* the resume of the worked examples: three degrees, the last one unterminated
ResumeFull ==
    [name |-> <<"M","a","r","y"," ","A","n","n"," ","S","m","i","t","h">>, email |-> <<"a","@","b",".","c","o","m">>, phone |-> <<"5","5","5","-","1","2","3","4">>, education |-> <<[degree |-> <<"B","S">>, end_year |-> <<"2","0","2","0">>], [degree |-> <<"M","S">>, end_year |-> <<"2","0","2","2">>], [degree |-> <<"P","h","D">>, end_year |-> None]>>, skills |-> <<<<"P","y","t","h","o","n">>>>, experience |-> <<[title |-> <<"E","n","g","i","n","e","e","r">>, company |-> <<"A","c","m","e">>, start_year |-> <<"2","0","1","9">>, end_year |-> None, description |-> <<"B","u","i","l","t"," ","i","t">>], [title |-> <<"I","n","t","e","r","n">>, company |-> <<"I","n","i","t","e","c","h">>, start_year |-> <<"2","0","1","7">>, end_year |-> <<"2","0","1","8">>, description |-> None]>>, projects |-> <<[name |-> <<"A","l","p","h","a">>, description |-> <<"S","h","o","r","t">>], [name |-> <<"B","e","t","a">>, description |-> <<"A"," ","l","o","n","g","e","r"," ","t","e","x","t">>]>>]

\* a resume as _normalize_education and _normalize_experience shape it: every
\* education entry carries degree and degree_raw, None when the input had none
ResumeNormalized ==
    [name |-> <<"A","n","n">>, email |-> None, phone |-> None, education |-> <<[degree |-> None, degree_raw |-> None, institution |-> <<"M","I","T">>, start_year |-> <<"2","0","1","9">>, end_year |-> None], [degree |-> <<"B","a","c","h","e","l","o","r"," ","o","f"," ","S","c","i","e","n","c","e"," ","i","n"," ","P","h","y","s","i","c","s">>, degree_raw |-> <<"B","S"," ","i","n"," ","P","h","y","s","i","c","s">>, institution |-> None, start_year |-> <<"2","0","1","4">>, end_year |-> <<"2","0","1","8">>]>>, skills |-> <<>>, experience |-> <<[title |-> <<"C","l","e","r","k">>, company |-> None, start_year |-> <<"2","0","1","5">>, end_year |-> <<"2","0","1","6">>]>>, projects |-> <<[name |-> <<"G","a","m","m","a">>, description |-> None], [name |-> <<"D","e","l","t","a">>]>>]

ResumeSingle ==
    [name |-> <<"B","o">>, email |-> <<"b","@","c",".","o","r","g">>, phone |-> None, education |-> <<[degree |-> <<"M","a","s","t","e","r"," ","o","f"," ","S","c","i","e","n","c","e"," ","i","n"," ","M","a","t","h">>, degree_raw |-> <<"M","S"," ","i","n"," ","M","a","t","h">>, start_year |-> <<"2","0","2","0">>, end_year |-> <<"2","0","1","9">>]>>, skills |-> <<<<"G","o">>, <<"S","Q","L">>>>, experience |-> <<[title |-> <<"A","n","a","l","y","s","t">>, company |-> <<"B","a","n","k">>, start_year |-> None, end_year |-> <<"2","0","2","1">>, description |-> <<>>]>>, projects |-> <<[name |-> None, description |-> <<"S","o","l","o">>]>>]

\* no entries at all
ResumeEmpty ==
    [name |-> None, email |-> None, phone |-> None, education |-> <<>>, skills |-> <<>>, experience |-> <<>>, projects |-> <<>>]

\* the list keys are absent
ResumeBare == [name |-> <<"C","y"," ","Y","o","u","n","g">>, email |-> <<"c","@","y",".","i","o">>]

Resumes == {ResumeFull, ResumeNormalized, ResumeSingle, ResumeEmpty, ResumeBare}

\* the names of the calls that a session and a batch draw from
NameComment == <<"C","o","m","m","e","n","t">>

NameEmail == <<"E","m","a","i","l">>

NamePhoneNumbr == <<"P","h","o","n","e"," ","N","u","m","b","r">>

NameMajor == <<"M","a","j","o","r">>

NameDegree == <<"D","e","g","r","e","e">>

NameJobTitl == <<"J","o","b"," ","T","i","t","l">>

NameZzz == <<"z","z","z">>

\* the lists map_multiple_fields is called with: empty, one name, two names
\* in both orders, a name twice around a name nothing matches, a rejected
\* and an ignored name in both orders, a name whose lookup can raise before
\* and after one that maps, three names of three kinds
BatchNames ==
    {<< >>,
     <<NameEmail>>,
     <<NameEmail, NameDegree>>,
     <<NameDegree, NameEmail>>,
     <<NameEmail, NameZzz, NameEmail>>,
     <<NamePhoneNumbr, NameComment>>,
     <<NameComment, NamePhoneNumbr>>,
     <<NameMajor, NameEmail>>,
     <<NameEmail, NameMajor>>,
     <<NameJobTitl, NameZzz, NameDegree>>}

(***************************************************************************)
(* The state machine: a call is drawn, then the called function runs.      *)
(***************************************************************************)
VARIABLES
    op,                  \* the function that is called
    pc,                  \* "call" before it runs, "done" after
    ats_field_name,      \* arguments of map_ats_field
    resume_data,
    selection_strategy,  \* also the strategy of a selector call
    fuzzy_threshold,
    explain,
    entry_list,          \* the list a selector is called with
    result,              \* what the call returned
    ats_field_names,     \* the names map_multiple_fields is called with
    kwargs,              \* the keywords of the call that no parameter names
    warnings,            \* the warnings issued so far, in order
    calls,               \* the number of calls made in the session
    earlier,             \* the first call of map_ats_field in the session and its result
    resume_before,       \* the resume as it was before the first call
    raw_resume_data,     \* arguments of normalize_resume and of the normalizer
    role_profile,
    normalize_enabled,
    skills_as_strings,
    debug,
    self                 \* the ResumeNormalizer object

mapper_vars == <<op, pc, ats_field_name, ats_field_names, resume_data, selection_strategy,
                 fuzzy_threshold, explain, entry_list, result>>

session_vars == <<kwargs, warnings, calls, earlier, resume_before>>

normalizer_vars == <<raw_resume_data, role_profile, normalize_enabled, skills_as_strings,
                     debug, self>>

vars == <<mapper_vars, session_vars, normalizer_vars>>

NoResult == [outcome |-> "pending"]

NoCall == [outcome |-> "no call"]

NoObject == [constructed |-> FALSE]

\* no session of calls is under way
NoSession ==
    /\ kwargs = {}
    /\ warnings = << >>
    /\ calls = 0
    /\ earlier = NoCall
    /\ resume_before = resume_data

\* the normalizer is not called
NoNormalizer ==
    /\ raw_resume_data = None
    /\ role_profile = "default"
    /\ normalize_enabled = TRUE
    /\ skills_as_strings = FALSE
    /\ debug = FALSE
    /\ self = NoObject

\* a call of map_ats_field on any name, resume, strategy, threshold and flag
InitMapAtsField ==
    /\ op = "map_ats_field"
    /\ ats_field_name \in FieldNames
    /\ resume_data \in Resumes
    /\ selection_strategy \in SelectionStrategy
    /\ fuzzy_threshold \in Thresholds
    /\ explain \in BOOLEAN
    /\ entry_list = << >>
    /\ ats_field_names = << >>

\* a call of map_multiple_fields on any list of names, resume, strategy,
\* threshold and flag
InitMapMultipleFields ==
    /\ op = "map_multiple_fields"
    /\ ats_field_names \in BatchNames
    /\ resume_data \in Resumes
    /\ selection_strategy \in SelectionStrategy
    /\ fuzzy_threshold \in Thresholds
    /\ explain \in BOOLEAN
    /\ entry_list = << >>
    /\ ats_field_name = << >>

\* a call of a selector; the entries vary in what the strategy reads
InitSelector ==
    /\ op \in {"_select_education_entry", "_select_experience_entry", "_select_project_entry"}
    /\ selection_strategy \in SelectionStrategy
    /\ entry_list \in
          IF op = "_select_project_entry" THEN ListsUpTo(ProjectEntries, MaxEntries)
          ELSE IF op = "_select_education_entry" /\ selection_strategy = HIGHEST_DEGREE
          THEN ListsUpTo(DegreeEntries, MaxEntries)
          ELSE ListsUpTo(DatedEntries, MaxEntries)
    /\ ats_field_name = << >>
    /\ ats_field_names = << >>
    /\ resume_data = ResumeEmpty
    /\ fuzzy_threshold = DefaultThreshold
    /\ explain = FALSE

Init ==
    /\ pc = "call"
    /\ result = NoResult
    /\ (InitMapAtsField \/ InitMapMultipleFields \/ InitSelector)
    /\ NoSession
    /\ NoNormalizer

Return(value) ==
    /\ pc' = "done"
    /\ result' = value
    /\ UNCHANGED <<op, ats_field_name, ats_field_names, resume_data, selection_strategy,
                   fuzzy_threshold, explain, entry_list>>
    /\ UNCHANGED <<session_vars, normalizer_vars>>

MapAtsField ==
    /\ pc = "call" /\ op = "map_ats_field"
    /\ Return(map_ats_field(ats_field_name, resume_data, selection_strategy, fuzzy_threshold, explain))

MapMultipleFields ==
    /\ pc = "call" /\ op = "map_multiple_fields"
    /\ Return(map_multiple_fields(ats_field_names, resume_data, selection_strategy, fuzzy_threshold, explain))

SelectEducationEntry ==
    /\ pc = "call" /\ op = "_select_education_entry"
    /\ Return(_select_education_entry(entry_list, selection_strategy))

SelectExperienceEntry ==
    /\ pc = "call" /\ op = "_select_experience_entry"
    /\ Return(_select_experience_entry(entry_list, selection_strategy))

SelectProjectEntry ==
    /\ pc = "call" /\ op = "_select_project_entry"
    /\ Return(_select_project_entry(entry_list, selection_strategy))

Next ==
    \/ MapAtsField
    \/ MapMultipleFields
    \/ SelectEducationEntry
    \/ SelectExperienceEntry
    \/ SelectProjectEntry

Spec == Init /\ [][Next]_vars

(***************************************************************************)
(* A session: calls of map_ats_field and of map_multiple_fields, one after *)
(* another, on one resume object.  The first call of map_ats_field is      *)
(* remembered in earlier, and the resume of the start in resume_before.    *)
(***************************************************************************)
\* an exact match, a name that selects an entry, a name whose lookup can
\* raise
SessionNames == {NameEmail, NameDegree, NameMajor}

SessionBatches == {<<NameDegree, NameEmail>>, <<NameMajor, NameEmail>>}

SessionResumes == {ResumeFull, ResumeNormalized}

\* the keywords a call passes beside the declared parameters
Keywords == {{}, {"strict"}}

\* the number of calls of a session
MaxCalls == 3

\* the arguments of a call other than the resume
Arguments(name, strategy, threshold, flag, keywords) ==
    [ats_field_name |-> name, selection_strategy |-> strategy,
     fuzzy_threshold |-> threshold, explain |-> flag, kwargs |-> keywords]

\* the calls of a session share the strategy and the threshold
InitSession ==
    /\ op = "none"
    /\ pc = "session"
    /\ ats_field_name = << >>
    /\ ats_field_names = << >>
    /\ resume_data \in SessionResumes
    /\ selection_strategy \in {MOST_RECENT, LONGEST}
    /\ fuzzy_threshold = DefaultThreshold
    /\ explain = FALSE
    /\ entry_list = << >>
    /\ result = NoResult
    /\ NoSession
    /\ NoNormalizer

\* a call map_ats_field(name, resume_data, selection_strategy,
\* fuzzy_threshold, flag, **keywords): the binding of the arguments, then
\* the body
SessionMapAtsField ==
    /\ pc = "session" /\ calls < MaxCalls
    /\ \E name \in SessionNames, flag \in BOOLEAN, keywords \in Keywords :
          /\ op' = "map_ats_field"
          /\ ats_field_name' = name
          /\ ats_field_names' = << >>
          /\ explain' = flag
          /\ kwargs' = keywords
          /\ IF MapperAcceptsKeywords(keywords)
             THEN /\ result' = map_ats_field(name, resume_data, selection_strategy,
                                             fuzzy_threshold, flag)
                  /\ resume_data' = ResumeAfterMapAtsField(resume_data)
             ELSE /\ result' = Raises
                  /\ resume_data' = resume_data
          /\ earlier' = IF earlier = NoCall
                        THEN [call |-> Arguments(name, selection_strategy, fuzzy_threshold,
                                                 flag, keywords),
                              at |-> calls + 1,
                              result |-> result']
                        ELSE earlier
    /\ calls' = calls + 1
    /\ UNCHANGED <<pc, selection_strategy, fuzzy_threshold, entry_list, warnings,
                   resume_before, normalizer_vars>>

\* a call map_multiple_fields(names, resume_data, selection_strategy,
\* fuzzy_threshold, flag, **keywords)
SessionMapMultipleFields ==
    /\ pc = "session" /\ calls < MaxCalls
    /\ \E names \in SessionBatches, flag \in BOOLEAN, keywords \in Keywords :
          /\ op' = "map_multiple_fields"
          /\ ats_field_name' = << >>
          /\ ats_field_names' = names
          /\ explain' = flag
          /\ kwargs' = keywords
          /\ IF MapperAcceptsKeywords(keywords)
             THEN /\ result' = map_multiple_fields(names, resume_data, selection_strategy,
                                                   fuzzy_threshold, flag)
                  /\ resume_data' = ResumeAfterMapMultipleFields(names, resume_data,
                                                                 selection_strategy,
                                                                 fuzzy_threshold, flag)
             ELSE /\ result' = Raises
                  /\ resume_data' = resume_data
    /\ calls' = calls + 1
    /\ UNCHANGED <<pc, selection_strategy, fuzzy_threshold, entry_list, warnings, earlier,
                   resume_before, normalizer_vars>>

NextSession ==
    \/ SessionMapAtsField
    \/ SessionMapMultipleFields

SpecSession == InitSession /\ [][NextSession]_vars

(***************************************************************************)
(* The inputs of the normalizer.                                           *)
(***************************************************************************)
\* an education entry and an experience entry that end in the given year
\* (None for a current one); the experience entry has a description
EducationEnding(year) ==
    RawDict([degree |-> RawStr(<<"b","s"," ","i","n"," ","p","h","y","s","i","c","s">>), institution |-> RawStr(<<"u","n","i","v"," ","o","f"," ","x">>),
             start_year |-> RawStr(<<"2","0","1","5">>), end_year |-> year])

ExperienceEnding(year) ==
    RawDict([title |-> RawStr(<<"s","r",".","d","e","v">>), company |-> RawStr(<<"a","c","m","e"," ","i","n","c">>),
             start_year |-> RawStr(<<"2","0","1","6">>), end_year |-> year,
             description |-> RawStr(<<"b","u","i","l","t"," ","i","t">>)])

End2018 == RawStr(<<"2","0","1","8">>)

End2020 == RawStr(<<"2","0","2","0">>)

\* the end years of the entries of a resume, in the order of the input
EndYearLists ==
    {<<End2020, RawNone, End2018>>, <<RawNone, End2020>>, <<End2018, End2020>>, <<RawNone>>,
     <<End2020, RawStr(<<"s","o","o","n">>), RawNone>>}

RawProject == RawDict([name |-> RawStr(<<"m","y"," ","a","p","p">>), description |-> RawStr(<<" ","a"," ","t","o","o","l"," ">>)])

\* a valid resume whose education and experience entries end in the years
RawResume(years, skills) ==
    RawDict([name |-> RawStr(<<"a","d","a"," ","o","'","n","e","i","l">>),
             email |-> RawStr(<<" ","A","d","a","@","X",".","o","r","g">>),
             phone |-> RawStr(<<"5","5","5"," ","1","2","3"," ","4","5","6","7">>),
             education |-> RawList([k \in DOMAIN years |-> EducationEnding(years[k])]),
             skills |-> RawList(skills),
             experience |-> RawList([k \in DOMAIN years |-> ExperienceEnding(years[k])]),
             projects |-> RawList(<<RawProject>>)])

\* skills of the three kinds: mapped exactly, mapped by a part, unmapped; one
\* is given twice
SkillsMixed == <<RawStr(<<"D","o","c","k","e","r">>), RawStr(<<"p","y">>), RawStr(<<"z","e","d"," ","l","a","n","g">>), RawStr(<<"P","Y","T","H","O","N">>), RawStr(<<"a","w","s"," ","c","l","o","u","d">>)>>

SkillsPlain == <<RawStr(<<"s","q","l">>), RawStr(<<"A","g","i","l","e">>)>>

\* a skill given as a dict, which the validator accepts
SkillsAsDicts == <<RawDict([name |-> RawStr(<<"p","y">>), confidence |-> RawInt(1)])>>

RawBase == RawResume(<<End2020, RawNone, End2018>>, SkillsPlain)

\* the skills were inferred, not read from a skills section
RawInferred ==
    RawDict(RawResume(<<End2020>>, SkillsMixed).d
            @@ [_skills_metadata |-> RawDict([from_explicit_section |-> RawBool(FALSE)])])

RawEmpty ==
    RawDict([name |-> RawNone, email |-> RawNone, phone |-> RawNone, education |-> RawList(<< >>),
             skills |-> RawList(<< >>), experience |-> RawList(<< >>),
             projects |-> RawList(<< >>)])

ValidResumes ==
    {RawResume(years, SkillsPlain) : years \in EndYearLists}
    \cup {RawResume(<<End2018, End2020>>, SkillsMixed), RawResume(<<RawNone>>, SkillsAsDicts),
          RawInferred, RawEmpty}


\* the ways the base resume is made invalid, each at a place of its own
Defects ==
    <<"name missing", "email int", "education str", "skill int", "skill nameless",
      "experience item str", "project name int", "project description list">>

\* the key with another value; the item of a list replaced
WithValue(data, key, value) == [data EXCEPT ![key] = value]

WithItem(data, key, k, item) ==
    [data EXCEPT ![key] = RawList([data[key].items EXCEPT ![k] = item])]

WithItemField(data, key, k, field, value) ==
    WithItem(data, key, k, RawDict([data[key].items[k].d EXCEPT ![field] = value]))

WithDefect(data, defect) ==
    CASE defect = "name missing" -> [key \in DOMAIN data \ {"name"} |-> data[key]]
      [] defect = "email int" -> WithValue(data, "email", RawInt(7))
      [] defect = "education str" -> WithValue(data, "education", RawStr(<<"x">>))
      [] defect = "skill int" -> WithItem(data, "skills", 2, RawInt(3))
      [] defect = "skill nameless" -> WithItem(data, "skills", 1, RawDict(<< >>))
      [] defect = "experience item str" -> WithItem(data, "experience", 1, RawStr(<<"x">>))
      [] defect = "project name int" -> WithItemField(data, "projects", 1, "name", RawInt(1))
      [] defect = "project description list" ->
             WithItemField(data, "projects", 1, "description", RawList(<< >>))

RECURSIVE WithDefectsFrom(_, _, _)

WithDefectsFrom(data, defects, k) ==
    IF k > Len(Defects) THEN data
    ELSE WithDefectsFrom(IF Defects[k] \in defects THEN WithDefect(data, Defects[k]) ELSE data,
                         defects, k + 1)

\* the base resume with a set of defects
Defective(defects) == RawDict(WithDefectsFrom(RawBase.d, defects, 1))

\* the most defects one input has
MaxDefects == 2

DefectSets ==
    {defects \in SUBSET Range(Defects) :
        Cardinality(defects) >= 1 /\ Cardinality(defects) <= MaxDefects}

\* inputs that are no dict at all
NotDicts == {RawNone, RawList(<< >>), RawStr(<<"x">>)}

RawInputs == ValidResumes \cup {Defective(defects) : defects \in DefectSets} \cup NotDicts

\* what a ResumeNormalizer object is given, call after call
ObjectInputs ==
    {RawResume(<<End2020>>, SkillsPlain), Defective({"email int"}),
     RawResume(<<RawNone>>, SkillsAsDicts)}

Profiles == {"default", "software_engineer", "data_scientist", "product_manager"}

(***************************************************************************)
(* The normalizer: normalize_resume is called once; a ResumeNormalizer is  *)
(* constructed and its normalize is called up to MaxCalls times.           *)
(***************************************************************************)
InitNormalizer ==
    /\ op \in {"normalize_resume", "ResumeNormalizer"}
    /\ pc = "call"
    /\ ats_field_name = << >>
    /\ ats_field_names = << >>
    /\ resume_data = ResumeEmpty
    /\ selection_strategy = MOST_RECENT
    /\ fuzzy_threshold = DefaultThreshold
    /\ explain = FALSE
    /\ entry_list = << >>
    /\ result = NoResult
    /\ kwargs \in Keywords
    /\ warnings = << >>
    /\ calls = 0
    /\ earlier = NoCall
    /\ resume_before = resume_data
    /\ raw_resume_data \in (IF op = "normalize_resume" THEN RawInputs ELSE {None})
    /\ role_profile \in Profiles
    /\ normalize_enabled \in BOOLEAN
    /\ skills_as_strings \in BOOLEAN
    /\ debug \in BOOLEAN
    /\ self = NoObject

\* normalize_resume(raw_resume_data, role_profile, normalize_enabled,
\* skills_as_strings, debug, **kwargs)
NormalizeResume ==
    /\ pc = "call" /\ op = "normalize_resume"
    /\ warnings' = warnings \o ParameterWarnings("normalize_resume", kwargs)
    /\ result' = normalize_resume(raw_resume_data, role_profile, normalize_enabled,
                                  skills_as_strings, debug)
    /\ calls' = calls + 1
    /\ pc' = "done"
    /\ UNCHANGED <<op, ats_field_name, ats_field_names, resume_data, selection_strategy,
                   fuzzy_threshold, explain, entry_list, kwargs, earlier, resume_before,
                   normalizer_vars>>

\* ResumeNormalizer(role_profile, normalize_enabled, skills_as_strings, debug,
\* **kwargs)
Construct ==
    /\ pc = "call" /\ op = "ResumeNormalizer"
    /\ warnings' = warnings \o ParameterWarnings("ResumeNormalizer.__init__", kwargs)
    /\ self' = ResumeNormalizer(role_profile, normalize_enabled, skills_as_strings, debug)
    /\ pc' = "constructed"
    /\ UNCHANGED <<op, ats_field_name, ats_field_names, resume_data, selection_strategy,
                   fuzzy_threshold, explain, entry_list, result, kwargs, calls, earlier,
                   resume_before, raw_resume_data, role_profile, normalize_enabled,
                   skills_as_strings, debug>>

\* self.normalize(data, **keywords)
Normalize ==
    /\ pc = "constructed" /\ calls < MaxCalls
    /\ \E data \in ObjectInputs, keywords \in Keywords :
          /\ op' = "ResumeNormalizer.normalize"
          /\ raw_resume_data' = data
          /\ kwargs' = keywords
          /\ warnings' = warnings \o NormalizeWarnings(keywords)
          /\ result' = normalize(self, data)
          /\ self' = ObjectAfterNormalize(self, data)
    /\ calls' = calls + 1
    /\ UNCHANGED <<pc, ats_field_name, ats_field_names, resume_data, selection_strategy,
                   fuzzy_threshold, explain, entry_list, earlier, resume_before, role_profile,
                   normalize_enabled, skills_as_strings, debug>>

NextNormalizer ==
    \/ NormalizeResume
    \/ Construct
    \/ Normalize

SpecNormalizer == InitNormalizer /\ [][NextNormalizer]_vars


(***************************************************************************)
(* The functions called on their own: fuzzy_match_field and                *)
(* normalize_field_name on a name, _parse_year and _validate_year on a     *)
(* year text.  The text of the call is held in ats_field_name.             *)
(***************************************************************************)
\* the pair the dict literal writes at line 443 and overwrites at line 499
OverwrittenPairs ==
    {<<<<"s","t","a","r","t"," ","d","a","t","e">>, "experience.start_date">>}

\* the (synonym, field) pairs as the literal of ATS_FIELD_MAPPINGS writes
\* them
WrittenPairs == Range(ATS_FIELD_MAPPINGS) \cup OverwrittenPairs

WrittenSynonyms == {pair[1] : pair \in WrittenPairs}

\* the keys of the table, in its order, whose value is the canonical field
get_ats_field_variations(canonical_field) ==
    LET IsVariation(pair) == pair[2] = canonical_field
        variations == SelectSeq(ATS_FIELD_MAPPINGS, IsVariation)
    IN  [k \in DOMAIN variations |-> variations[k][1]]

\* "  Required: Email Address (Required) "
ScenarioEName ==
    <<" "," ","R","e","q","u","i","r","e","d",":"," ","E","m","a","i","l"," ","A","d","d","r","e","s","s"," ","(","R","e","q","u","i","r","e","d",")"," ">>

\* names with decorations, punctuation and runs of spaces
DecoratedNames ==
    {<<"O","p","t","i","o","n","a","l",":"," ","P","h","o","n","e"," ","#">>,
     <<"e","n","t","e","r"," "," ","z","i","p","/","p","o","s","t","a","l"," ","c","o","d","e",":"," ","o","p","t","i","o","n","a","l">>,
     <<"R","E","Q","U","I","R","E","D">>,
     <<"e","-","m","a","i","l"," "," ","a","d","d","r","e","s","s">>,
     <<"(","r","e","q","u","i","r","e","d",")">>,
     <<"r","e","q","u","i","r","e","d",":","o","p","t","i","o","n","a","l",":","n","a","m","e">>,
     <<"n","a","m","e"," ","(","o","p","t","i","o","n","a","l",")"," ","(","r","e","q","u","i","r","e","d",")">>,
     <<"\t","C","i","t","y","\n">>,
     ScenarioEName}

\* year texts at and around the bounds, and texts int() accepts that are no
\* four digits
YearTexts ==
    {None, << >>,
     <<"1","9","0","0">>, <<"2","1","0","0">>, <<"1","8","9","9">>, <<"2","1","0","1">>,
     <<"9","9">>, <<"a","b","c","d">>, <<"2","0","2","0">>,
     <<" ","2","0","2","0"," ">>, <<"+","2","0","2","0">>, <<"0","2","0","2","0">>,
     <<"2","_","0","2","0">>, <<"-","2","0","2","0">>, <<"2","0","2","0","0">>,
     <<"2","0","2","0",".","0">>, <<"2","0"," ","2","0">>}

FunctionInputs ==
    [fuzzy_match_field |-> WrittenSynonyms \cup FieldNames,
     normalize_field_name |-> WrittenSynonyms \cup FieldNames \cup DecoratedNames,
     _parse_year |-> YearTexts,
     _validate_year |-> YearTexts]

InitFunctions ==
    /\ op \in DOMAIN FunctionInputs
    /\ pc = "call"
    /\ ats_field_name \in FunctionInputs[op]
    /\ explain \in (IF op \in {"fuzzy_match_field", "normalize_field_name"}
                    THEN BOOLEAN ELSE {FALSE})
    /\ fuzzy_threshold = DefaultThreshold
    /\ ats_field_names = << >>
    /\ resume_data = ResumeEmpty
    /\ selection_strategy = MOST_RECENT
    /\ entry_list = << >>
    /\ result = NoResult
    /\ NoSession
    /\ NoNormalizer

\* fuzzy_match_field(field_name, threshold, explain)
FuzzyMatchField ==
    /\ pc = "call" /\ op = "fuzzy_match_field"
    /\ Return(fuzzy_match_field(ats_field_name, fuzzy_threshold, explain))

\* normalize_field_name(field_name, track_steps)
NormalizeFieldName ==
    /\ pc = "call" /\ op = "normalize_field_name"
    /\ Return(normalize_field_name(ats_field_name, explain))

\* _parse_year(year_str)
ParseYear ==
    /\ pc = "call" /\ op = "_parse_year"
    /\ Return(_parse_year(ats_field_name))

\* self._validate_year(year)
ValidateYear ==
    /\ pc = "call" /\ op = "_validate_year"
    /\ Return(_validate_year(ats_field_name))

NextFunctions ==
    \/ FuzzyMatchField
    \/ NormalizeFieldName
    \/ ParseYear
    \/ ValidateYear

SpecFunctions == InitFunctions /\ [][NextFunctions]_vars
(***************************************************************************)
(* The properties.  A call has returned when pc = "done"; result then      *)
(* holds what it returned.                                                 *)
(***************************************************************************)
\* the normalized form of the name of the call
NormalizedName == normalize_field_name(ats_field_name, FALSE).normalized

\* some blacklist pattern matches the normalized name
NameIsBlacklisted == BlacklistHits(NormalizedName) # {}

\* the normalized name is a key of the synonym table
NameIsSynonym == \E k \in DOMAIN ATS_FIELD_MAPPINGS : ATS_FIELD_MAPPINGS[k][1] = NormalizedName

\* map_ats_field has returned for a name that is neither blacklisted nor a
\* synonym, and some synonym scores above zero against it
FuzzyCallDone ==
    /\ pc = "done" /\ op = "map_ats_field"
    /\ ~NameIsBlacklisted /\ ~NameIsSynonym
    /\ Scanned(NormalizedName).best_match # NoField

\* best synonym score s times the weight w of the field of that synonym
WeightedBest ==
    RatMul(Scanned(NormalizedName).best_score,
           FIELD_SENSITIVITY_WEIGHTS[Scanned(NormalizedName).best_match])

\* the call returned the mapping of the best synonym's field; a category
\* field may instead have had no entry to select
BestAccepted ==
    \/ /\ result.outcome = "record"
       /\ result.record.canonical_field = Scanned(NormalizedName).best_match
       /\ result.record.match_type = "fuzzy"
       /\ result.record.schema_path # None
    \/ /\ result.outcome # "record"
       /\ SelectionCategory(FieldText[Scanned(NormalizedName).best_match]) # NoCategory

\* the call returned no mapping: None, or with explain a diagnostic record
\* without schema_path and value
BestRejected ==
    IF explain
    THEN /\ result.outcome = "record"
         /\ result.record.schema_path = None
         /\ result.record.value = PyNone
    ELSE result = ReturnsNone

\* C1: a field name whose normalized form matches a blacklist pattern is
\* returned as a record with match_type 'ignored', canonical_field None,
\* value None and a blacklist_reason naming a pattern, for every resume,
\* strategy, threshold and explain flag, whatever the synonym table would
\* have matched the name to.
C1_BlacklistPrecedence ==
    (pc = "done" /\ op = "map_ats_field" /\ NameIsBlacklisted)
    => /\ result.outcome = "record"
       /\ result.record.match_type = "ignored"
       /\ result.record.canonical_field = NoField
       /\ result.record.value = PyNone
       /\ "blacklist_reason" \in DOMAIN result.record
       /\ result.record.blacklist_reason \in BlacklistHits(NormalizedName)

\* a blacklisted name that the synonym table matches to 'skills' was ignored
C1_Witness ==
    /\ pc = "done" /\ op = "map_ats_field" /\ NameIsBlacklisted
    /\ fuzzy_match_field(ats_field_name, fuzzy_threshold, FALSE).field = "skills"
    /\ result.outcome = "record"
    /\ result.record.match_type = "ignored"

\* C2: in every record map_ats_field returns, match_type 'exact' comes with
\* confidence 1.0 whatever the weight of the field, and match_type 'fuzzy'
\* with confidence raw_score times the weight of the matched field (1.0 for
\* a field without a listed weight).
C2_ConfidenceFormula ==
    (pc = "done" /\ op = "map_ats_field" /\ result.outcome = "record")
    => /\ result.record.match_type = "exact" => RatEq(result.record.confidence, One)
       /\ result.record.match_type = "fuzzy"
          => RatEq(result.record.confidence,
                   RatMul(result.record.raw_score,
                          IF result.record.canonical_field \in DOMAIN FIELD_SENSITIVITY_WEIGHTS
                          THEN FIELD_SENSITIVITY_WEIGHTS[result.record.canonical_field]
                          ELSE One))

\* a fuzzy match to a field of weight 0.5 was mapped
C2_Witness ==
    /\ pc = "done" /\ op = "map_ats_field" /\ result.outcome = "record"
    /\ result.record.match_type = "fuzzy"
    /\ result.record.schema_path # None
    /\ RatEq(FIELD_SENSITIVITY_WEIGHTS[result.record.canonical_field], <<1, 2>>)
    /\ RatLt(result.record.confidence, result.record.raw_score)

\* C3: for a name that is neither blacklisted nor a synonym, with best
\* synonym score s and weight w of the matched field: s*w equal to the
\* threshold is accepted; s*w below the threshold is rejected, and the call
\* with explain=False returns None.
C3_ThresholdBoundary ==
    FuzzyCallDone
    => /\ RatEq(WeightedBest, fuzzy_threshold) => BestAccepted
       /\ RatLt(WeightedBest, fuzzy_threshold) => BestRejected

\* a fuzzy match whose confidence equals the threshold was mapped
C3_Witness ==
    /\ FuzzyCallDone
    /\ RatEq(WeightedBest, fuzzy_threshold)
    /\ result.outcome = "record"
    /\ result.record.match_type = "fuzzy"
    /\ result.record.schema_path # None
    /\ RatEq(result.record.confidence, fuzzy_threshold)

\* C4: at the threshold 0.7, a fuzzy match to a CRITICAL field (email,
\* phone, phone_number) is accepted when its raw similarity is 0.9 or more
\* and rejected when it is lower.
C4_CriticalNearPerfectPasses ==
    (/\ FuzzyCallDone
     /\ fuzzy_threshold = <<7, 10>>
     /\ Scanned(NormalizedName).best_match \in {"email", "phone", "phone_number"})
    => IF RatLe(<<9, 10>>, Scanned(NormalizedName).best_score)
       THEN BestAccepted
       ELSE BestRejected

\* C5: map_ats_field returns None or a record, it never raises, for every
\* name, resume, strategy, threshold and explain flag.
C5_NeverRaises ==
    (pc = "done" /\ op = "map_ats_field") => result.outcome \in {"None", "record"}

\* the resume list a category field selects from
ListOfMatchedField ==
    GetOr(resume_data,
          IF SelectionCategory(FieldText[fuzzy_match_field(ats_field_name, fuzzy_threshold,
                                                           FALSE).field]) = "project"
          THEN "projects"
          ELSE SelectionCategory(FieldText[fuzzy_match_field(ats_field_name, fuzzy_threshold,
                                                             FALSE).field]),
          << >>)

\* map_ats_field has returned for a name that is matched to a category field
\* whose resume list is empty or absent
EmptyCategoryCallDone ==
    /\ pc = "done" /\ op = "map_ats_field"
    /\ ~NameIsBlacklisted
    /\ fuzzy_match_field(ats_field_name, fuzzy_threshold, FALSE).field # NoField
    /\ SelectionCategory(FieldText[fuzzy_match_field(ats_field_name, fuzzy_threshold,
                                                     FALSE).field]) # NoCategory
    /\ ListOfMatchedField = << >>

\* C6: a name matched to a category field whose resume list is empty or
\* absent gets None, or with explain a diagnostic record of a match below
\* the threshold; never a raise, never a record with a schema_path, a value
\* or a selected_index.
C6_EmptyListNoMatch ==
    EmptyCategoryCallDone
    => \/ result = ReturnsNone
       \/ /\ explain
          /\ result.outcome = "record"
          /\ result.record.schema_path = None
          /\ result.record.value = PyNone
          /\ result.record.selected_index = NoIndex
          /\ RatLt(result.record.confidence, fuzzy_threshold)

\* an exact match to an education field of a resume without an education key
\* returned None
C6_Witness ==
    /\ EmptyCategoryCallDone
    /\ "education" \notin DOMAIN resume_data
    /\ fuzzy_match_field(ats_field_name, fuzzy_threshold, FALSE).field = "education.degree"
    /\ result = ReturnsNone

\* a selector has returned
SelectorDone ==
    /\ pc = "done"
    /\ op \in {"_select_education_entry", "_select_experience_entry", "_select_project_entry"}

\* C7: each selector, for every strategy, returns (None, None) on an empty
\* list and, on a non-empty list, (index, entry) with 0 <= index < len(list)
\* and entry = list[index].
C7_SelectorTotality ==
    SelectorDone
    => IF entry_list = << >>
       THEN result = <<NoIndex, NoEntry>>
       ELSE /\ result[1] \in 0..(Len(entry_list) - 1)
            /\ result[2] = entry_list[result[1] + 1]

\* a selector returned the last entry of a list of several
C7_Witness ==
    /\ SelectorDone
    /\ Len(entry_list) >= 2
    /\ result[1] = Len(entry_list) - 1
    /\ result[2] = entry_list[Len(entry_list)]
    /\ result[2] # entry_list[1]

\* the selector of education or experience entries has returned for a
\* non-empty list
DatedSelectorDone ==
    /\ pc = "done"
    /\ op \in {"_select_education_entry", "_select_experience_entry"}
    /\ entry_list # << >>

\* the validated end-year and start-year of the i-th entry, NoYear when the
\* value is None or no valid year
EndYearOf(i) == _parse_year(Get(entry_list[i], "end_year"))

StartYearOf(i) == _parse_year(Get(entry_list[i], "start_year"))

\* C8: under MOST_RECENT on an education or experience list, the first entry
\* without a validated end-year is selected if there is one; otherwise the
\* entry with the largest end-year, the earliest one among equals.
C8_MostRecent ==
    (DatedSelectorDone /\ selection_strategy = MOST_RECENT)
    => IF \E i \in DOMAIN entry_list : EndYearOf(i) = NoYear
       THEN result[1] = Min({i \in DOMAIN entry_list : EndYearOf(i) = NoYear}) - 1
       ELSE result[1] =
                Min({i \in DOMAIN entry_list :
                        \A j \in DOMAIN entry_list : EndYearOf(j) <= EndYearOf(i)}) - 1

\* an unterminated entry between two dated ones was selected
C8_Witness ==
    /\ DatedSelectorDone /\ selection_strategy = MOST_RECENT
    /\ Len(entry_list) = 3
    /\ EndYearOf(1) # NoYear /\ EndYearOf(3) # NoYear
    /\ Get(entry_list[2], "end_year") = None
    /\ result[1] = 1

\* the entries with both years valid, and those with a valid start-year and
\* no end-year
BothYearsValid == {i \in DOMAIN entry_list : StartYearOf(i) # NoYear /\ EndYearOf(i) # NoYear}

StartOnly == {i \in DOMAIN entry_list : StartYearOf(i) # NoYear /\ EndYearOf(i) = NoYear}

\* C9: under LONGEST on an education or experience list, among the entries
\* with both years valid the one with the largest end_year - start_year is
\* selected, the earliest one among equals; without such an entry, an entry
\* with a valid start-year and no end-year; otherwise index 0.
C9_LongestDuration ==
    (DatedSelectorDone /\ selection_strategy = LONGEST)
    => IF BothYearsValid # {}
       THEN result[1] =
                Min({i \in BothYearsValid :
                        \A j \in BothYearsValid :
                            EndYearOf(j) - StartYearOf(j) <= EndYearOf(i) - StartYearOf(i)}) - 1
       ELSE IF StartOnly # {}
       THEN result[1] + 1 \in StartOnly
       ELSE result[1] = 0

\* the degree level of the i-th entry
LevelOf(i) ==
    _get_degree_level(Or(Get(entry_list[i], "degree"), Get(entry_list[i], "degree_raw")))

\* C10: under HIGHEST_DEGREE the education selector returns the first entry
\* of the highest degree level (PhD 4, Master 3, Bachelor 2, Associate 1,
\* other 0, by the keywords the degree text contains), the experience
\* selector returns what it returns under MOST_RECENT, and the project
\* selector returns the first entry.
C10_HighestDegree ==
    /\ _get_degree_level(<<"P","h","D">>) = 4
    /\ _get_degree_level(<<"M",".","S">>) = 3
    /\ _get_degree_level(<<"B","a","c","h","e","l","o","r"," ","o","f"," ","A","r","t","s">>) = 2
    /\ _get_degree_level(<<"D","i","p","l","o","m","a">>) = 1
    /\ _get_degree_level(<<"B","S">>) = 0
    /\ (SelectorDone /\ selection_strategy = HIGHEST_DEGREE /\ entry_list # << >>)
       => /\ op = "_select_education_entry"
             => /\ result[1] = Min({i \in DOMAIN entry_list :
                                      \A j \in DOMAIN entry_list : LevelOf(j) <= LevelOf(i)}) - 1
                /\ result[2] = entry_list[result[1] + 1]
          /\ op = "_select_experience_entry"
             => result = _select_experience_entry(entry_list, MOST_RECENT)
          /\ op = "_select_project_entry" => result = <<0, entry_list[1]>>

\* of two entries of the highest level, the first was selected
C10_Witness ==
    /\ SelectorDone /\ selection_strategy = HIGHEST_DEGREE
    /\ op = "_select_education_entry"
    /\ Len(entry_list) = 3
    /\ LevelOf(1) = 2 /\ LevelOf(2) = 4 /\ LevelOf(3) = 4
    /\ entry_list[2] # entry_list[3]
    /\ result[1] = 1


(***************************************************************************)
(* Properties of sessions and of map_multiple_fields.                      *)
(***************************************************************************)
\* the last call of the session was map_ats_field with the arguments of the
\* remembered earlier call, on the same resume object
RepeatedCall ==
    /\ pc = "session" /\ op = "map_ats_field"
    /\ earlier # NoCall
    /\ calls > earlier.at
    /\ earlier.call = Arguments(ats_field_name, selection_strategy, fuzzy_threshold, explain,
                                kwargs)

BatchDone == pc = "done" /\ op = "map_multiple_fields"

\* what map_ats_field returns for one name with the other arguments of the
\* batch
SingleOf(f) == map_ats_field(f, resume_data, selection_strategy, fuzzy_threshold, explain)

\* the names of the batch, last first
NamesReversed ==
    [i \in DOMAIN ats_field_names |-> ats_field_names[Len(ats_field_names) + 1 - i]]

\* C12: the dict map_multiple_fields returns has a key f exactly when f is
\* one of the names and map_ats_field(f, ...) is not None, with that result
\* as its item, each key once; the names in reverse order give an equal
\* dict.  (When map_ats_field raises for a name, so does the batch.)
C12_BatchIsPerField ==
    BatchDone
    => IF \E f \in Range(ats_field_names) : SingleOf(f) = Raises
       THEN result = Raises
       ELSE /\ result.outcome = "dict"
            /\ Range(result.results.keys) =
                   {f \in Range(ats_field_names) : SingleOf(f) # ReturnsNone}
            /\ Len(result.results.keys) = Cardinality(Range(result.results.keys))
            /\ \A f \in Range(result.results.keys) :
                   result.results.item[f] = SingleOf(f).record
            /\ DictEq(result.results,
                      map_multiple_fields(NamesReversed, resume_data, selection_strategy,
                                          fuzzy_threshold, explain).results)

\* a batch of three names returned the mappings of the first and the last
\* and omitted the one in between
C12_Witness ==
    /\ BatchDone
    /\ Len(ats_field_names) = 3
    /\ result.outcome = "dict"
    /\ result.results.keys = <<ats_field_names[1], ats_field_names[3]>>
    /\ ats_field_names[1] # ats_field_names[3]
    /\ SingleOf(ats_field_names[2]) = ReturnsNone

\* the name f is not blacklisted and either matches no canonical field at
\* the threshold or matches one by a fuzzy match whose weighted confidence
\* is below the threshold
FailsToResolve(f) ==
    /\ BlacklistHits(normalize_field_name(f, FALSE).normalized) = {}
    /\ \/ fuzzy_match_field(f, fuzzy_threshold, FALSE).field = NoField
       \/ /\ ~RatEq(fuzzy_match_field(f, fuzzy_threshold, FALSE).raw_score, One)
          /\ RatLt(RatMul(fuzzy_match_field(f, fuzzy_threshold, FALSE).raw_score,
                          SensitivityWeight(fuzzy_match_field(f, fuzzy_threshold, FALSE).field)),
                   fuzzy_threshold)

\* C13: for explain True as for explain False, the dict map_multiple_fields
\* returns has no key for a name that matches no canonical field or whose
\* fuzzy match is below the threshold.
C13_FailuresOmitted ==
    (BatchDone /\ result.outcome = "dict")
    => \A f \in Range(ats_field_names) :
           FailsToResolve(f) => f \notin Range(result.results.keys)

\* the twelve keys every record carries
BaseKeys ==
    {"canonical_field", "schema_path", "value", "match_type", "confidence", "raw_score",
     "sensitivity_weight", "selection_strategy", "selected_index", "ats_field_name",
     "normalized_field_name", "canonical_schema_version"}

\* map_ats_field has returned a record
RecordReturned == pc = "done" /\ op = "map_ats_field" /\ result.outcome = "record"

\* C14 as stated: every record map_ats_field returns has the fourteen keys
\* of the MappingResult shape, blacklist_reason and explainability included.
C14_FourteenKeys ==
    RecordReturned
    => DOMAIN result.record = BaseKeys \cup {"blacklist_reason", "explainability"}

\* C14 as the code has it: every record map_ats_field returns has the twelve
\* base keys; it has blacklist_reason exactly when match_type is 'ignored',
\* explainability exactly when explain is True, and no other key.
C14_RecordKeys ==
    RecordReturned
    => DOMAIN result.record =
           BaseKeys
           \cup (IF result.record.match_type = "ignored" THEN {"blacklist_reason"} ELSE {})
           \cup (IF explain THEN {"explainability"} ELSE {})

\* a mapped field without explain: twelve keys, neither blacklist_reason nor
\* explainability
C14_Witness ==
    /\ RecordReturned
    /\ ~explain
    /\ result.record.match_type = "exact"
    /\ result.record.schema_path # None
    /\ DOMAIN result.record = BaseKeys

KeywordPassed == pc = "session" /\ calls > 0 /\ kwargs # {}

\* what the last call of the session returns without the keyword
WithoutKeyword ==
    IF op = "map_ats_field"
    THEN map_ats_field(ats_field_name, resume_data, selection_strategy, fuzzy_threshold,
                       explain)
    ELSE map_multiple_fields(ats_field_names, resume_data, selection_strategy,
                             fuzzy_threshold, explain)

\* C16: a call of map_ats_field or map_multiple_fields with an unrecognized
\* keyword argument does not raise: a warning is emitted and the call
\* returns what the call without that argument returns.
C16_UnknownKeywordTolerated ==
    KeywordPassed => (warnings # << >> /\ result = WithoutKeyword)

\* normalize_resume or ResumeNormalizer.normalize has been called on
\* raw_resume_data
NormalizeCalled ==
    \/ op = "normalize_resume" /\ pc = "done"
    \/ op = "ResumeNormalizer.normalize"

\* the line validate_resume_schema reports for a defect of the base resume
ExpectedLine(defect) ==
    CASE defect = "name missing" ->
             [kind |-> "missing field", path |-> <<"name">>, expected |-> "", got |-> ""]
      [] defect = "email int" ->
             [kind |-> "wrong type", path |-> <<"email">>, expected |-> "str or None",
              got |-> "int"]
      [] defect = "education str" ->
             [kind |-> "wrong type", path |-> <<"education">>, expected |-> "list",
              got |-> "str"]
      [] defect = "skill int" ->
             [kind |-> "wrong type", path |-> <<"skills", 1>>, expected |-> "str or dict",
              got |-> "int"]
      [] defect = "skill nameless" ->
             [kind |-> "missing name", path |-> <<"skills", 0>>, expected |-> "", got |-> ""]
      [] defect = "experience item str" ->
             [kind |-> "wrong type", path |-> <<"experience", 0>>, expected |-> "dict",
              got |-> "str"]
      [] defect = "project name int" ->
             [kind |-> "wrong type", path |-> <<"projects", 0, "name">>,
              expected |-> "str or None", got |-> "int"]
      [] defect = "project description list" ->
             [kind |-> "wrong type", path |-> <<"projects", 0, "description">>,
              expected |-> "str or None", got |-> "list"]

RECURSIVE LineCount(_)

\* the number of lines of an error message
LineCount(errors) ==
    IF errors = << >> THEN 0 ELSE Cardinality(Head(errors)) + LineCount(Tail(errors))

\* the error lists exactly the lines of the defects, one line each
ItemizesAll(outcome, defects) ==
    /\ outcome.outcome = "ResumeValidationError"
    /\ outcome.itemized
    /\ UNION Range(outcome.errors) = {ExpectedLine(defect) : defect \in defects}
    /\ LineCount(outcome.errors) = Cardinality(defects)

\* the object as its constructor left it
AsConstructed ==
    self = ResumeNormalizer(role_profile, normalize_enabled, skills_as_strings, debug)

NormalizedReturned ==
    NormalizeCalled /\ result.outcome = "result" /\ result.value.normalization_enabled

\* the end year of an entry is numeric
NumericEndYear(entry) == Truthy(entry.end_year) /\ str_isdigit(entry.end_year)

\* descending by end year, the entries without a numeric end year last
Chronological(entries) ==
    \A i, j \in DOMAIN entries :
        i < j => /\ ~NumericEndYear(entries[i]) => ~NumericEndYear(entries[j])
                 /\ (NumericEndYear(entries[i]) /\ NumericEndYear(entries[j]))
                        => DecimalValue(entries[i].end_year, 0)
                               >= DecimalValue(entries[j].end_year, 0)

EducationChronological == NormalizedReturned => Chronological(result.value.normalized.education)

ExperienceChronological ==
    NormalizedReturned => Chronological(result.value.normalized.experience)

\* C18: in the normalized output the education list and the experience list
\* are in descending order of end year, and every entry with a None end year
\* comes after all entries with a numeric end year.
C18_CurrentEntriesLast == EducationChronological /\ ExperienceChronological

\* normalize_resume has returned a result for a valid input
NormalizeResumeReturned == op = "normalize_resume" /\ pc = "done" /\ result.outcome = "result"

\* what the same call returns with the other skills format
OtherFormat ==
    normalize_resume(raw_resume_data, role_profile, normalize_enabled, ~skills_as_strings,
                     debug).value

\* the fields of the seven that are not the skills
OtherFields == Fields7 \ {"skills"}

\* two outputs agree on every key beside normalized and explainability, and
\* on every field of normalized that is not the skills
SameBesideSkills(a, b) ==
    /\ DOMAIN a = DOMAIN b
    /\ \A key \in DOMAIN a \ {"normalized", "explainability"} : a[key] = b[key]
    /\ IF a.normalization_enabled
       THEN \A field \in OtherFields : a.normalized[field] = b.normalized[field]
       ELSE a.normalized = b.normalized

\* two explanations of the skills are the same: the format they name first
SameExplanation(a, b) ==
    /\ DOMAIN a = DOMAIN b
    /\ "format" \in DOMAIN a => a.format = b.format
    /\ a = b

\* the explainability of two outputs agrees on the fields that are not the
\* skills
SameExplainability(a, b) ==
    "explainability" \in DOMAIN a
    => \A field \in OtherFields : a.explainability[field] = b.explainability[field]

\* C19 as stated: for a valid input the outputs of normalize_resume with
\* skills_as_strings True and False are the same in every field other than
\* normalized.skills.
C19_OnlySkillsDiffer ==
    NormalizeResumeReturned
    => /\ SameBesideSkills(result.value, OtherFormat)
       /\ SameExplainability(result.value, OtherFormat)
       /\ "explainability" \in DOMAIN result.value
              => SameExplanation(result.value.explainability.skills,
                                 OtherFormat.explainability.skills)

\* C19 as the code has it: for a valid input and every role profile the
\* outputs of normalize_resume with skills_as_strings True and False have
\* the same keys and are the same in every field other than
\* normalized.skills and, when debug is True, explainability.skills.
C19_SkillsAndTheirExplanationDiffer ==
    NormalizeResumeReturned
    => /\ SameBesideSkills(result.value, OtherFormat)
       /\ SameExplainability(result.value, OtherFormat)

\* a debug output with skills for the software engineer profile: the
\* education, the experience and the explanations of both are there
C19_Witness ==
    /\ NormalizeResumeReturned
    /\ debug /\ normalize_enabled /\ skills_as_strings
    /\ role_profile = "software_engineer"
    /\ Len(result.value.normalized.skills) >= 2
    /\ Len(result.value.normalized.education) >= 2
    /\ "explainability" \in DOMAIN result.value
    /\ result.value.explainability.skills.format = "strings"

\* the keys the module documents for an experience entry
DocumentedExperienceKeys ==
    {"title", "company", "start_year", "end_year", "raw_date", "description"}

\* the descriptions of the experience entries of the input
InputDescriptions ==
    {RawGet(raw_resume_data.d["experience"].items[k], "description") :
        k \in DOMAIN raw_resume_data.d["experience"].items}

\* C20: with normalization enabled every normalized experience entry has the
\* keys title, company, start_year, end_year, raw_date and description, and
\* its description is the description of an input entry.
C20_DescriptionKept ==
    NormalizedReturned
    => \A k \in DOMAIN result.value.normalized.experience :
           /\ DOMAIN result.value.normalized.experience[k] = DocumentedExperienceKeys
           /\ result.value.normalized.experience[k].description \in InputDescriptions

\* what fuzzy_match_field returns for the name, threshold and flag of the
\* call
Matched == fuzzy_match_field(ats_field_name, fuzzy_threshold, explain)

\* map_ats_field has returned for a name that is no synonym and whose best
\* score over the synonym table is below the threshold
BelowThreshold ==
    /\ pc = "done" /\ op = "map_ats_field"
    /\ ~NameIsSynonym
    /\ ~MeetsThreshold(Scanned(NormalizedName).best_score, fuzzy_threshold)

\* with explain the explanation names the method 'none', the best key and
\* the best score
ExplainsNoMatch ==
    explain
    => /\ Matched.explanation.matching.method = "none"
       /\ Matched.explanation.matching.similarity_score = Scanned(NormalizedName).best_score
       /\ Matched.explanation.matching.matched_field
              = Scanned(NormalizedName).best_matched_field

\* C21 as stated: below the threshold fuzzy_match_field returns no field
\* and, as raw score, the best score it found; with explain the method of
\* the explanation is 'none'.
C21_BelowThresholdBestScore ==
    BelowThreshold
    => /\ Matched.field = NoField
       /\ RatEq(Matched.raw_score, Scanned(NormalizedName).best_score)
       /\ ExplainsNoMatch

\* C21 as the code has it: below the threshold fuzzy_match_field returns no
\* field and the raw score 0.0; with explain the method of the explanation
\* is 'none' and the best score found is its similarity_score.  For a name
\* that is not blacklisted map_ats_field then returns None, or with explain
\* the diagnostic record with raw_score 0.0 and that explanation.
C21_BelowThresholdZero ==
    BelowThreshold
    => /\ Matched.field = NoField
       /\ Matched.raw_score = Zero
       /\ ExplainsNoMatch
       /\ ~NameIsBlacklisted
              => IF explain
                 THEN /\ result.outcome = "record"
                      /\ result.record.canonical_field = NoField
                      /\ result.record.raw_score = Zero
                      /\ result.record.explainability = Matched.explanation
                 ELSE result = ReturnsNone

\* 'Phone Numbr' under the threshold 1.0 with explain: the record has the
\* raw score 0.0, the explanation the best score 22/23
C21_Witness ==
    /\ BelowThreshold /\ explain
    /\ ats_field_name = NamePhoneNumbr
    /\ fuzzy_threshold = One
    /\ result.outcome = "record"
    /\ result.record.raw_score = Zero
    /\ result.record.explainability.matching.method = "none"
    /\ RatEq(result.record.explainability.matching.similarity_score, <<22, 23>>)

\* the normalized names of the calls
NormalizedNames == {normalize_field_name(f, FALSE).normalized : f \in FieldNames}

\* the scores of all keys against each normalized name of the calls, in
\* table order
ScoreCache ==
    [normalized \in NormalizedNames |->
        SubSeq([k \in 1..Len(ATS_FIELD_MAPPINGS) |-> KeyScore(normalized, k)],
               1, Len(ATS_FIELD_MAPPINGS))]

\* the score is the ratio, raised to 0.85 for a key that contains the name
\* or is contained in it
ScoredAsRatio(normalized, key, score, similarity) ==
    IF Contains(key, normalized) \/ Contains(normalized, key)
    THEN /\ RatLe(<<17, 20>>, score)
         /\ RatLe(similarity, score)
         /\ RatEq(score, <<17, 20>>) \/ RatEq(score, similarity)
    ELSE RatEq(score, similarity)

\* the names all of whose scores are the ratio, raised for partial matches
RatioScored ==
    {normalized \in NormalizedNames :
        \A k \in DOMAIN ATS_FIELD_MAPPINGS :
            ScoredAsRatio(normalized, ATS_FIELD_MAPPINGS[k][1],
                          ScoreCache[normalized][k].similarity,
                          ratio(normalized, ATS_FIELD_MAPPINGS[k][1]))}

\* the first place of a list of scores whose score no place exceeds
FirstMaximumOf(scores) ==
    CHOOSE k \in DOMAIN scores :
        /\ \A j \in DOMAIN scores : RatLe(scores[j].similarity, scores[k].similarity)
        /\ \A j \in 1..(k - 1) : RatLt(scores[j].similarity, scores[k].similarity)

FirstMaximumCache ==
    [normalized \in NormalizedNames |-> FirstMaximumOf(ScoreCache[normalized])]

\* the first key in table order with the maximum score against the name of
\* the call, and that score
FirstMaximum == FirstMaximumCache[NormalizedName]

ScoreAt(k) == ScoreCache[NormalizedName][k].similarity

\* map_ats_field has returned for a name that is no synonym
ScanDone == pc = "done" /\ op = "map_ats_field" /\ ~NameIsSynonym

\* C22: for a normalized name that is no key of the synonym table every key
\* is scored as the similarity ratio, raised to at least 0.85 when the name
\* contains the key or the key the name; the best key is the first key in
\* table order that attains the maximum score, and when that score meets the
\* threshold fuzzy_match_field returns the field of that key with that
\* score.
C22_FirstMaximumWins ==
    ScanDone
    => /\ NormalizedName \in RatioScored
       /\ RatLt(Zero, ScoreAt(FirstMaximum))
              => /\ Scanned(NormalizedName).best_matched_field
                        = ATS_FIELD_MAPPINGS[FirstMaximum][1]
                 /\ Scanned(NormalizedName).best_match = ATS_FIELD_MAPPINGS[FirstMaximum][2]
                 /\ Scanned(NormalizedName).best_score = ScoreAt(FirstMaximum)
       /\ MeetsThreshold(ScoreAt(FirstMaximum), fuzzy_threshold)
              => /\ Matched.field = ATS_FIELD_MAPPINGS[FirstMaximum][2]
                 /\ Matched.raw_score = ScoreAt(FirstMaximum)
                 /\ explain => Matched.explanation.matching.matched_field
                                   = ATS_FIELD_MAPPINGS[FirstMaximum][1]

\* the empty name is contained in every key: all keys score 0.85, keys of
\* other fields among them, and the first key of the table is returned
C22_Witness ==
    /\ ScanDone
    /\ NormalizedName = << >>
    /\ FirstMaximum = 1
    /\ \E j \in DOMAIN ATS_FIELD_MAPPINGS :
           /\ j > 1
           /\ RatEq(ScoreAt(j), ScoreAt(1))
           /\ ATS_FIELD_MAPPINGS[j][2] # ATS_FIELD_MAPPINGS[1][2]
    /\ MeetsThreshold(ScoreAt(1), fuzzy_threshold)
    /\ Matched.field = ATS_FIELD_MAPPINGS[1][2]
    /\ result.outcome = "record"
    /\ result.record.canonical_field = ATS_FIELD_MAPPINGS[1][2]

\* the written pairs that get_ats_field_variations returns
ReturnedPairs == {pair \in WrittenPairs : pair[1] \in Range(get_ats_field_variations(pair[2]))}

\* fuzzy_match_field has returned for a synonym the table writes
SynonymMatched ==
    pc = "done" /\ op = "fuzzy_match_field" /\ ats_field_name \in WrittenSynonyms

\* the synonym is in normalized form
SynonymIsNormalized == normalize_field_name(ats_field_name, FALSE).normalized = ats_field_name

\* the synonym resolves by exact match to the field of the pair
ResolvesExactly(pair) == result.field = pair[2] /\ result.raw_score = One

\* no other field is written for the synonym of the pair
OneField(pair) == \A other \in WrittenPairs : other[1] = pair[1] => other[2] = pair[2]

\* C23: every synonym written in ATS_FIELD_MAPPINGS and returned by
\* get_ats_field_variations is in normalized form and resolves by exact
\* match, with raw score 1.0, to the canonical field written for it; no
\* synonym is written for two fields.
C23_SynonymsResolveExactly ==
    SynonymMatched =>
        /\ \A pair \in ReturnedPairs :
               pair[1] = ats_field_name => (SynonymIsNormalized /\ ResolvesExactly(pair))
        /\ \A pair \in WrittenPairs : pair[1] = ats_field_name => OneField(pair)

\* normalize_field_name has returned
NormalizeFieldNameReturned == pc = "done" /\ op = "normalize_field_name"

\* the names of the five stages, in pipeline order
StageNames ==
    <<"lowercase", "remove_prefix", "remove_suffix", "remove_special_chars", "normalize_whitespace">>

\* the text before the first stage and after each of the five stages
StageOutputs ==
    LET o1 == str_strip(str_lower(ats_field_name))
        o2 == remove_prefix(o1)
        o3 == remove_suffix(o2)
        o4 == remove_special_chars(o3)
        o5 == normalize_whitespace(o4)
    IN  <<ats_field_name, o1, o2, o3, o4, o5>>

\* the stages that changed the text
ChangingStages == {k \in DOMAIN StageNames : StageOutputs[k + 1] # StageOutputs[k]}

\* the position of a stage name in the pipeline
StageOf(name) == CHOOSE k \in DOMAIN StageNames : StageNames[k] = name

\* the step list names exactly the stages that changed the text, in
\* pipeline order, each with the text before and after that stage
StepsAreTheChanges ==
    LET steps == result.steps
    IN  /\ \A k \in DOMAIN steps : steps[k].step \in Range(StageNames)
        /\ {StageOf(steps[k].step) : k \in DOMAIN steps} = ChangingStages
        /\ \A k \in DOMAIN steps :
              /\ steps[k].before = StageOutputs[StageOf(steps[k].step)]
              /\ steps[k].after = StageOutputs[StageOf(steps[k].step) + 1]
              /\ steps[k].after # steps[k].before
        /\ \A k \in 1..(Len(steps) - 1) :
              /\ StageOf(steps[k].step) < StageOf(steps[k + 1].step)
              /\ steps[k + 1].before = steps[k].after
        /\ steps # << >> => steps[Len(steps)].after = result.normalized

\* C24: normalize_field_name returns the text after its five stages applied
\* in order, the same text with and without track_steps; with track_steps
\* the step list holds exactly the stages that changed the text, in pipeline
\* order, each 'before' being the previous stage's output, each 'after'
\* differing from its 'before', and the last 'after' being the returned
\* text; without track_steps there is no step list.
C24_StagesAndSteps ==
    NormalizeFieldNameReturned =>
        /\ result.normalized = StageOutputs[6]
        /\ result.normalized = normalize_field_name(ats_field_name, ~explain).normalized
        /\ IF explain THEN StepsAreTheChanges ELSE result.steps = None

\* scenario E: three stages change the text and 'email address' is returned
C24_Witness ==
    /\ NormalizeFieldNameReturned
    /\ explain
    /\ ats_field_name = ScenarioEName
    /\ result.normalized = <<"e","m","a","i","l"," ","a","d","d","r","e","s","s">>
    /\ Len(result.steps) = 3
    /\ result.steps[1].after = <<"r","e","q","u","i","r","e","d",":"," ","e","m","a","i","l"," ","a","d","d","r","e","s","s"," ","(","r","e","q","u","i","r","e","d",")">>

\* _parse_year or _validate_year has returned
YearChecked == pc = "done" /\ op \in {"_parse_year", "_validate_year"}

\* the year text is made of four digits and its value lies in [1900, 2100]
FourDigitYear(text) ==
    /\ text # None
    /\ Len(text) = 4
    /\ \A k \in DOMAIN text : text[k] \in Range(DigitChars)
    /\ MinYear <= DecimalValue(text, 0)
    /\ DecimalValue(text, 0) <= MaxYear

ParseYearAccepts(text) == _parse_year(text) # NoYear

ValidateYearAccepts(text) == _validate_year(text) # None

\* the function that was called accepted the text
YearAccepted == IF op = "_parse_year" THEN result # NoYear ELSE result # None

\* C25: a year text is accepted if and only if it is a four-digit string
\* whose value lies in [1900, 2100], and _parse_year and _validate_year
\* accept exactly the same texts.
C25_FourDigitYearsOnly ==
    YearChecked =>
        /\ YearAccepted <=> FourDigitYear(ats_field_name)
        /\ ParseYearAccepts(ats_field_name) <=> ValidateYearAccepts(ats_field_name)

\* map_ats_field has returned
MapAtsFieldReturned == pc = "done" /\ op = "map_ats_field"

\* what the same call returns with the explain flag flipped
WithOtherExplain ==
    map_ats_field(ats_field_name, resume_data, selection_strategy, fuzzy_threshold, ~explain)

\* the outcome of the call without and with explain
WithoutExplain == IF explain THEN WithOtherExplain ELSE result

WithExplain == IF explain THEN result ELSE WithOtherExplain

\* the keys of a record that hold the decision
DecisionKeys ==
    {"canonical_field", "schema_path", "value", "match_type", "confidence", "raw_score",
     "sensitivity_weight", "selection_strategy", "selected_index"}

SameDecision(plain, explained) ==
    /\ plain.outcome = "record" =>
          /\ explained.outcome = "record"
          /\ \A key \in DecisionKeys : explained.record[key] = plain.record[key]
    /\ plain.outcome = "None" =>
          \/ explained.outcome = "None"
          \/ /\ explained.outcome = "record"
             /\ explained.record.schema_path = None
             /\ explained.record.value = PyNone
    /\ explained.outcome = "TypeError" => plain.outcome = "TypeError"

\* C26: for the same name, resume, strategy and threshold, a record returned
\* without explain is returned with explain with the same canonical_field,
\* schema_path, value, match_type, confidence, raw_score, sensitivity_weight,
\* selection_strategy and selected_index; where the call without explain
\* returns None, the call with explain returns None or a record whose
\* schema_path and value are None; the call with explain raises only where
\* the call without explain raises.
C26_ExplainKeepsDecision == MapAtsFieldReturned => SameDecision(WithoutExplain, WithExplain)

\* a fuzzy match of a category field was explained, with the entry it
\* selected, and the call without explain returns the record without the
\* explanation
C26_Witness ==
    /\ MapAtsFieldReturned
    /\ explain
    /\ result.outcome = "record"
    /\ result.record.match_type = "fuzzy"
    /\ result.record.selected_index # NoIndex
    /\ result.record.explainability.selection # PyNone
    /\ WithOtherExplain.outcome = "record"
    /\ "explainability" \notin DOMAIN WithOtherExplain.record
    /\ WithOtherExplain.record.value = result.record.value

\* map_ats_field has returned a record whose schema_path is not None
PathReturned ==
    /\ MapAtsFieldReturned
    /\ result.outcome = "record"
    /\ result.record.schema_path # None

\* the category of the record's canonical field
RecordCategory == SelectionCategory(FieldText[result.record.canonical_field])

\* the key of the resume list a category selects from, and its text
ListKey(category) == IF category = "project" THEN "projects" ELSE category

ListText(category) ==
    IF category = "education" THEN EducationText
    ELSE IF category = "experience" THEN ExperienceText
    ELSE ProjectsText

\* the resume list of a category
ListOf(category) == GetOr(resume_data, ListKey(category), << >>)

\* the path starts with the list's name and the index, as in 'education[2].'
NamesIndex(schema_path, category, idx) ==
    StartsWith(schema_path, ListText(category) \o <<"[">> \o Decimal(idx) \o <<"]", ".">>)

\* C27: in every record returned by map_ats_field with a schema_path that is
\* not None, a category field (education.*, experience.*, project.*) has a
\* value that is not None and a selected_index i with 0 <= i < length of the
\* resume list of that category, and the schema_path names that index; a
\* scalar field has selected_index None.
C27_SelectedIndexMatchesPath ==
    PathReturned =>
        IF RecordCategory # NoCategory
        THEN /\ result.record.value # PyNone
             /\ result.record.selected_index \in 0..(Len(ListOf(RecordCategory)) - 1)
             /\ NamesIndex(result.record.schema_path, RecordCategory, result.record.selected_index)
        ELSE result.record.selected_index = NoIndex

\* a project field was mapped to an entry that is not the first of the list
C27_Witness ==
    /\ PathReturned
    /\ RecordCategory = "project"
    /\ result.record.selected_index > 0
    /\ Len(ListOf(RecordCategory)) > result.record.selected_index

\* a category field was mapped with explain
SelectionExplained == PathReturned /\ explain /\ RecordCategory # NoCategory

\* explainability['selection'] of the returned record
ExplainedSelection == result.record.explainability.selection

\* C28: with explain, for every mapped category field (education.*,
\* experience.*, project.*) explainability.selection.total_entries is the
\* length of the resume list the entry was selected from, selected_index is
\* less than total_entries, and the reasoning describes the selected entry,
\* not that no entries are available.
C28_SelectionCountsTheList ==
    SelectionExplained =>
        /\ ExplainedSelection.total_entries = Len(ListOf(RecordCategory))
        /\ ExplainedSelection.selected_index < ExplainedSelection.total_entries
        /\ ExplainedSelection.reasoning.text # "No entries available"

\* normalize_resume has returned a normalized output
SkillsNormalized == NormalizeResumeReturned /\ result.value.normalization_enabled

\* the names of a list of normalized skills of one format
SkillNames(skills, as_strings) == [k \in DOMAIN skills |-> SkillName(skills[k], as_strings)]

\* the names returned, and the names the other format returns
NamesReturned == SkillNames(result.value.normalized.skills, skills_as_strings)

\* normalized.skills of the same call with the other format: normalize hands
\* the input's skills and their source to _normalize_skills
SkillsOfOtherFormat ==
    _normalize_skills(ResumeNormalizer(role_profile, normalize_enabled, ~skills_as_strings, debug),
                      PlainSkills(raw_resume_data.d["skills"].items),
                      SkillsFromExplicitSection(raw_resume_data.d))

NamesOfOtherFormat == SkillNames(SkillsOfOtherFormat, ~skills_as_strings)

\* no two names are the same ignoring case
NoDuplicateNames(names) ==
    \A i, j \in DOMAIN names : i # j => str_lower(names[i]) # str_lower(names[j])

\* the profile the normalizer works with: the one asked for, or the default
\* one in place of a profile that is not active
EffectiveProfile ==
    ResumeNormalizer(role_profile, normalize_enabled, skills_as_strings, debug).role_profile

\* the two sequences of names are the same
SameSequence(names, other_names) == names = other_names

\* the two formats hold the same names, as many of them, none twice ignoring
\* case, and in the same sequence under the default profile
SameNames(names, other_names, profile) ==
    /\ Range(names) = Range(other_names)
    /\ Len(names) = Len(other_names)
    /\ NoDuplicateNames(names)
    /\ NoDuplicateNames(other_names)
    /\ profile = "default" => names = other_names

\* C29 as stated: for every valid input, role profile and skills source the
\* sequence of skill names in normalized.skills is the same for
\* skills_as_strings True and False, and no two output skills have the same
\* name ignoring case.
C29_SameNameSequence ==
    SkillsNormalized =>
        /\ SameSequence(AsList(NamesReturned), AsList(NamesOfOtherFormat))
        /\ NoDuplicateNames(AsList(NamesReturned))

\* C29 as the code has it: for every valid input, role profile and skills
\* source the two formats hold the same names, as many of them, and no
\* two output skills have the same name ignoring case; the sequence of
\* names is the same under the default profile, a deprecated profile
\* included.
C29_SameNamesSameOrderByDefault ==
    SkillsNormalized => SameNames(AsList(NamesReturned), AsList(NamesOfOtherFormat), EffectiveProfile)

\* the software engineer profile put duplicated input skills in an order
\* that differs between the formats
C29_Witness ==
    /\ SkillsNormalized
    /\ role_profile = "software_engineer"
    /\ skills_as_strings
    /\ Len(NamesReturned) = 4
    /\ Len(raw_resume_data.d["skills"].items) = 5
    /\ NamesReturned # NamesOfOtherFormat
    /\ NamesReturned[2] = <<"A","W","S">>
    /\ NamesOfOtherFormat[2] = <<"D","o","c","k","e","r">>

\* normalize_resume has returned a normalized output with its explanations
ExplanationsReturned == SkillsNormalized /\ debug /\ "explainability" \in DOMAIN result.value

\* the items of an explanation: its entries or skills, none for an empty list
ItemsOf(explanation, key) == IF key \in DOMAIN explanation THEN explanation[key] ELSE << >>

\* the education item pairs an end year with the end year validated from it
EducationPairsOneEntry(item) ==
    item.years.end_year.transformed_value = _validate_year(item.years.end_year.value)

\* the experience item pairs an end year with itself
ExperiencePairsOneEntry(item) == item.years.end_year.transformed_value = item.years.end_year.value

\* the skill item pairs a skill with its canonical form
SkillPairsOneEntry(item) ==
    item.transformed_value = CanonicalSkill(item.value, str_strip(str_lower(item.value)), 0).canonical

AllPairOneEntry(education, experience, skills) ==
    /\ \A k \in DOMAIN education : EducationPairsOneEntry(education[k])
    /\ \A k \in DOMAIN experience : ExperiencePairsOneEntry(experience[k])
    /\ \A k \in DOMAIN skills : SkillPairsOneEntry(skills[k])

\* C30: with debug, every item of explainability.education.entries,
\* explainability.experience.entries and explainability.skills.skills pairs
\* an input element with the normalized element built from that same
\* element, for every input order, reordered or de-duplicated inputs
\* included.
C30_ItemsPairOneEntry ==
    ExplanationsReturned =>
        AllPairOneEntry(ItemsOf(result.value.explainability.education, "entries"),
                        ItemsOf(result.value.explainability.experience, "entries"),
                        ItemsOf(result.value.explainability.skills, "skills"))
====
